---- MODULE Spec2Model ----
(***************************************************************************)
(* pkg/httpio: Unmarshal fills a destination record from the JSON body,    *)
(* the query string, path variables, headers and cookies of a request.     *)
(*                                                                         *)
(* Strings are sequences of one-character strings, so the name path is a   *)
(* byte buffer that is appended to and truncated by length, as in decode.  *)
(***************************************************************************)
EXTENDS Integers, Sequences, FiniteSets, TLC

VARIABLES
    pc,                   \* "idle", "body", "validate", "walk", "defer", "done"
    destType,             \* the destination's struct type: its sequence of fields
    destRef,              \* what the caller passed as dest: "ptr" (a non-nil
                          \* pointer to a record), "nil" (a nil pointer),
                          \* "value" (a record, not a pointer), "ptrScalar"
                          \* (a non-nil pointer to an int)
    r,                    \* the *http.Request of the call
    dest,                 \* the destination's members: leaf path -> value
    in,                   \* the call's decodeIn: queryVals, parsedCookies
    stack,                \* live decode() frames: path, loop index i, fullName
    err,                  \* what Unmarshal returns
    buf,                  \* the *[]byte borrowed from bytesPool by this call
    bytesPool,            \* the *[]byte pointers in the pool
    heap,                 \* the buffers ever made by bytesPool.New, by pointer:
                          \* the slice *buf and the bytes of its backing array
    calls,                \* the calls in flight when requests are served
                          \* concurrently (empty while one call runs alone)
    currentPathLookuper,  \* the process-wide path lookuper
    w,                    \* the response of the Mux handler that made the call:
                          \* status, kind of body, calls of hndl and its request
    obs                   \* history of the call: lookups, writes, dest snapshots

vars == <<pc, destType, destRef, r, dest, in, stack, err, buf, bytesPool,
          heap, calls, currentPathLookuper, w, obs>>

(***************************************************************************)
(* Strings                                                                 *)
(***************************************************************************)
Empty == <<>>

delimiter == "."

DigitChars == <<"0", "1", "2", "3", "4", "5", "6", "7", "8", "9">>

IsDigit(c) == \E k \in 1..Len(DigitChars) : DigitChars[k] = c

DigitVal(c) == (CHOOSE k \in 1..Len(DigitChars) : DigitChars[k] = c) - 1

UpperChars == <<"A", "C", "D", "F", "H", "J", "L", "M", "N", "T", "X">>
LowerChars == <<"a", "c", "d", "f", "h", "j", "l", "m", "n", "t", "x">>

\* unicode.ToLower / ToUpper on the letters the model uses
ToLower(c) ==
    IF \E k \in 1..Len(UpperChars) : UpperChars[k] = c
    THEN LowerChars[CHOOSE k \in 1..Len(UpperChars) : UpperChars[k] = c]
    ELSE c

ToUpper(c) ==
    IF \E k \in 1..Len(LowerChars) : LowerChars[k] = c
    THEN UpperChars[CHOOSE k \in 1..Len(LowerChars) : LowerChars[k] = c]
    ELSE c

\* strings.EqualFold
EqualFold(s, t) ==
    /\ Len(s) = Len(t)
    /\ \A k \in 1..Len(s) : ToLower(s[k]) = ToLower(t[k])

\* textproto.CanonicalMIMEHeaderKey: upper-case the first letter and every
\* letter after a '-', lower-case the rest
CanonicalMIMEHeaderKey(s) ==
    [k \in 1..Len(s) |->
        IF k = 1 \/ s[k - 1] = "-" THEN ToUpper(s[k]) ELSE ToLower(s[k])]

\* the part of a json tag before its first comma
RECURSIVE BeforeComma(_)
BeforeComma(s) ==
    IF s = Empty \/ Head(s) = "," THEN Empty
    ELSE <<Head(s)>> \o BeforeComma(Tail(s))

(***************************************************************************)
(* Struct types: reflect.StructField                                       *)
(***************************************************************************)
NoTag == [ok |-> FALSE, v |-> Empty]

Tag(s) == [ok |-> TRUE, v |-> s]

NoTags == [json |-> NoTag, query |-> NoTag, path |-> NoTag,
           header |-> NoTag, cookie |-> NoTag]

\* a member: Go name, struct tag, kind of its type (of the pointee if ptr),
\* and the members of a nested record
Field(name, tag, kind, ptr, fields) ==
    [name |-> name, tag |-> tag, kind |-> kind, ptr |-> ptr, fields |-> fields]

Scalar(name, tag, kind) == Field(name, tag, kind, FALSE, <<>>)

Pointer(name, tag, kind) == Field(name, tag, kind, TRUE, <<>>)

Struct(name, tag, fields) == Field(name, tag, "struct", FALSE, fields)

IntKinds == {"int", "int8"}
UintKinds == {"uint", "uint8"}
FloatKinds == {"float64"}

\* the members of the record at `path` (a sequence of member indices)
RECURSIVE FieldsAt(_, _)
FieldsAt(fields, path) ==
    IF path = <<>> THEN fields
    ELSE FieldsAt(fields[Head(path)].fields, Tail(path))

\* the member at a non-empty path
FieldAt(fields, path) ==
    FieldsAt(fields, SubSeq(path, 1, Len(path) - 1))[path[Len(path)]]

\* paths of the members that hold a value (everything but nested records)
RECURSIVE LeafPaths(_, _)
LeafPaths(fields, prefix) ==
    UNION { IF fields[k].kind = "struct" /\ ~fields[k].ptr
            THEN LeafPaths(fields[k].fields, prefix \o <<k>>)
            ELSE {prefix \o <<k>>} : k \in 1..Len(fields) }

(***************************************************************************)
(* Values of members                                                       *)
(***************************************************************************)
Nil == [t |-> "nil", s |-> Empty, n |-> 0, b |-> FALSE]
StrV(s) == [t |-> "str", s |-> s, n |-> 0, b |-> FALSE]
IntV(n) == [t |-> "int", s |-> Empty, n |-> n, b |-> FALSE]
BoolV(b) == [t |-> "bool", s |-> Empty, n |-> 0, b |-> b]
\* a float by its sign, integer part and fraction digits
FloatV(neg, n, frac) == [t |-> "float", s |-> frac, n |-> n, b |-> neg]
\* a freshly allocated record behind a pointer
NewStruct == [t |-> "struct", s |-> Empty, n |-> 0, b |-> FALSE]

\* reflect.Zero of the member's kind (of the pointee for a pointer)
ZeroOfKind(kind) ==
    CASE kind = "string" -> StrV(Empty)
      [] kind \in IntKinds \cup UintKinds -> IntV(0)
      [] kind \in FloatKinds -> FloatV(FALSE, 0, Empty)
      [] kind = "bool" -> BoolV(FALSE)
      [] kind = "struct" -> NewStruct
      [] OTHER -> Nil

ZeroValue(field) == IF field.ptr THEN Nil ELSE ZeroOfKind(field.kind)

(***************************************************************************)
(* Errors Unmarshal returns, by kind                                       *)
(***************************************************************************)
NoError == "nil"
\* json.Decoder.Decode failed: *json.SyntaxError, io.EOF, *json.UnmarshalTypeError
BodyDecodeError == "BodyDecodeError"
\* fmt.Errorf("destination must be a non-nil pointer")
InvalidDestination == "InvalidDestination"
\* fmt.Errorf("unsupported type: %v", kind)
UnsupportedType == "UnsupportedType"
\* *strconv.NumError from ParseInt, ParseUint, ParseFloat
InvalidNumber == "InvalidNumber"
\* *json.InvalidUnmarshalError: Decode was handed a non-pointer or a nil pointer
InvalidUnmarshalError == "InvalidUnmarshalError"

(***************************************************************************)
(* strconv                                                                 *)
(***************************************************************************)
AllDigits(s) == s # Empty /\ \A k \in 1..Len(s) : IsDigit(s[k])

RECURSIVE DigitsValue(_, _)
DigitsValue(s, acc) ==
    IF s = Empty THEN acc
    ELSE DigitsValue(Tail(s), 10 * acc + DigitVal(Head(s)))

\* strconv.ParseUint(s, 10, 64): digits only, no sign.  The raw values of
\* the model have few digits, so the 64-bit range error cannot arise.
ParseUint(s) ==
    IF AllDigits(s) THEN [ok |-> TRUE, n |-> DigitsValue(s, 0)]
    ELSE [ok |-> FALSE, n |-> 0]

\* a ParseInt that loses the sign
ParseIntMagnitude(s) ==
    IF s # Empty /\ Head(s) \in {"+", "-"} THEN ParseUint(Tail(s)) ELSE ParseUint(s)

\* strconv.ParseInt(s, 10, 64): an optional sign, then digits
ParseInt(s) ==
    IF s # Empty /\ Head(s) \in {"+", "-"}
    THEN LET u == ParseUint(Tail(s))
         IN  [ok |-> u.ok, n |-> IF Head(s) = "-" THEN 0 - u.n ELSE u.n]
    ELSE ParseUint(s)

\* position of the first '.' of s, or 0
DotAt(s) ==
    IF \E k \in 1..Len(s) : s[k] = "."
    THEN CHOOSE k \in 1..Len(s) : s[k] = "." /\ \A j \in 1..(k - 1) : s[j] # "."
    ELSE 0

RECURSIVE StripZeros(_)
StripZeros(s) ==
    IF s # Empty /\ s[Len(s)] = "0" THEN StripZeros(SubSeq(s, 1, Len(s) - 1))
    ELSE s

\* strconv.ParseFloat(s, 64) on plain decimal notation: an optional sign,
\* digits with at most one '.', at least one digit
ParseFloat(s) ==
    LET neg  == s # Empty /\ Head(s) = "-"
        body == IF s # Empty /\ Head(s) \in {"+", "-"} THEN Tail(s) ELSE s
        d    == DotAt(body)
        ip   == IF d = 0 THEN body ELSE SubSeq(body, 1, d - 1)
        fp   == IF d = 0 THEN Empty ELSE SubSeq(body, d + 1, Len(body))
        good == /\ ip \o fp # Empty
                /\ \A k \in 1..Len(ip) : IsDigit(ip[k])
                /\ \A k \in 1..Len(fp) : IsDigit(fp[k])
    IN  IF good THEN [ok |-> TRUE, v |-> FloatV(neg, DigitsValue(ip, 0), StripZeros(fp))]
        ELSE [ok |-> FALSE, v |-> FloatV(FALSE, 0, Empty)]

\* SetInt / SetUint that store the 64-bit value as it is
TruncateNothing(kind, n) == n

\* reflect.Value.SetInt / SetUint store the 64-bit value truncated to the
\* member's width
Truncate(kind, n) ==
    CASE kind = "int8"  -> ((n + 128) % 256) - 128
      [] kind = "uint8" -> n % 256
      [] OTHER -> n

(***************************************************************************)
(* findInTag, the name path, setField                                      *)
(***************************************************************************)
tagTypeNone == "none"
tagTypeQuery == "query"
tagTypePath == "path"
tagTypeHeader == "header"
tagTypeCookie == "cookie"

\* reflect.StructTag.Lookup
Lookup(tag, key) == tag[key]

\* findInTag with the path annotation tried before the query annotation
findInTagPathFirst(t) ==
    LET q == Lookup(t.tag, "query")
        p == Lookup(t.tag, "path")
        h == Lookup(t.tag, "header")
        c == Lookup(t.tag, "cookie")
    IN  IF p.ok /\ p.v # Empty THEN [name |-> p.v, tagType |-> tagTypePath, ok |-> TRUE]
        ELSE IF q.ok /\ q.v # Empty THEN [name |-> q.v, tagType |-> tagTypeQuery, ok |-> TRUE]
        ELSE IF h.ok /\ h.v # Empty THEN [name |-> h.v, tagType |-> tagTypeHeader, ok |-> TRUE]
        ELSE IF c.ok /\ c.v # Empty THEN [name |-> c.v, tagType |-> tagTypeCookie, ok |-> TRUE]
        ELSE [name |-> Empty, tagType |-> tagTypeNone, ok |-> FALSE]

\* findInTag whose header check looks up the json annotation
findInTagJSONForHeader(t) ==
    LET q == Lookup(t.tag, "query")
        p == Lookup(t.tag, "path")
        h == Lookup(t.tag, "json")
        c == Lookup(t.tag, "cookie")
    IN  IF q.ok /\ q.v # Empty THEN [name |-> q.v, tagType |-> tagTypeQuery, ok |-> TRUE]
        ELSE IF p.ok /\ p.v # Empty THEN [name |-> p.v, tagType |-> tagTypePath, ok |-> TRUE]
        ELSE IF h.ok /\ h.v # Empty THEN [name |-> h.v, tagType |-> tagTypeHeader, ok |-> TRUE]
        ELSE IF c.ok /\ c.v # Empty THEN [name |-> c.v, tagType |-> tagTypeCookie, ok |-> TRUE]
        ELSE [name |-> Empty, tagType |-> tagTypeNone, ok |-> FALSE]

findInTag(t) ==
    LET q == Lookup(t.tag, "query")
        p == Lookup(t.tag, "path")
        h == Lookup(t.tag, "header")
        c == Lookup(t.tag, "cookie")
    IN  IF q.ok /\ q.v # Empty THEN [name |-> q.v, tagType |-> tagTypeQuery, ok |-> TRUE]
        ELSE IF p.ok /\ p.v # Empty THEN [name |-> p.v, tagType |-> tagTypePath, ok |-> TRUE]
        ELSE IF h.ok /\ h.v # Empty THEN [name |-> h.v, tagType |-> tagTypeHeader, ok |-> TRUE]
        ELSE IF c.ok /\ c.v # Empty THEN [name |-> c.v, tagType |-> tagTypeCookie, ok |-> TRUE]
        ELSE [name |-> Empty, tagType |-> tagTypeNone, ok |-> FALSE]

\* appendWithDelimiter that forgets the delimiter
appendWithoutDelimiter(prefix, name) == prefix \o name

appendWithDelimiter(prefix, name) == (prefix \o name) \o <<delimiter>>

\* popWithDelimiter that forgets the delimiter's byte
popWithoutDelimiter(prefix, name) == SubSeq(prefix, 1, Len(prefix) - Len(name))

popWithDelimiter(prefix, name) == SubSeq(prefix, 1, Len(prefix) - Len(name) - 1)

\* fullName = append(fullName, name...)
appendName(fullName, name) == fullName \o name

\* fullName = fullName[:len(fullName)-len(name)]
truncateName(fullName, name) == SubSeq(fullName, 1, Len(fullName) - Len(name))

\* the boolean test without regard to letter case
isTrueFold(value) == EqualFold(value, <<"t", "r", "u", "e">>)

\* value == "true"
isTrue(value) == value = <<"t", "r", "u", "e">>

\* setScalar that drops the parse errors and leaves the member as it was
setScalarSwallowingErrors(kind, v, value) ==
    CASE kind = "string" -> [err |-> NoError, v |-> StrV(value)]
      [] kind \in IntKinds ->
            LET p == ParseInt(value)
            IN  [err |-> NoError, v |-> IF p.ok THEN IntV(Truncate(kind, p.n)) ELSE v]
      [] kind \in UintKinds ->
            LET p == ParseUint(value)
            IN  [err |-> NoError, v |-> IF p.ok THEN IntV(Truncate(kind, p.n)) ELSE v]
      [] kind \in FloatKinds ->
            LET p == ParseFloat(value)
            IN  [err |-> NoError, v |-> IF p.ok THEN p.v ELSE v]
      [] kind = "bool" ->
            [err |-> NoError, v |-> BoolV(value = <<"t", "r", "u", "e">>)]
      [] OTHER -> [err |-> UnsupportedType, v |-> v]

\* setScalar whose default case leaves the member alone and reports no error
setScalarAcceptingAnyKind(kind, v, value) ==
    CASE kind = "string" -> [err |-> NoError, v |-> StrV(value)]
      [] kind \in IntKinds ->
            LET p == ParseInt(value)
            IN  IF p.ok THEN [err |-> NoError, v |-> IntV(Truncate(kind, p.n))]
                ELSE [err |-> InvalidNumber, v |-> v]
      [] kind \in UintKinds ->
            LET p == ParseUint(value)
            IN  IF p.ok THEN [err |-> NoError, v |-> IntV(Truncate(kind, p.n))]
                ELSE [err |-> InvalidNumber, v |-> v]
      [] kind \in FloatKinds ->
            LET p == ParseFloat(value)
            IN  IF p.ok THEN [err |-> NoError, v |-> p.v]
                ELSE [err |-> InvalidNumber, v |-> v]
      [] kind = "bool" ->
            [err |-> NoError, v |-> BoolV(value = <<"t", "r", "u", "e">>)]
      [] OTHER -> [err |-> NoError, v |-> v]

\* the kind switch of setField on a non-pointer value
setScalar(kind, v, value) ==
    CASE kind = "string" -> [err |-> NoError, v |-> StrV(value)]
      [] kind \in IntKinds ->
            LET p == ParseInt(value)
            IN  IF p.ok THEN [err |-> NoError, v |-> IntV(Truncate(kind, p.n))]
                ELSE [err |-> InvalidNumber, v |-> v]
      [] kind \in UintKinds ->
            LET p == ParseUint(value)
            IN  IF p.ok THEN [err |-> NoError, v |-> IntV(Truncate(kind, p.n))]
                ELSE [err |-> InvalidNumber, v |-> v]
      [] kind \in FloatKinds ->
            LET p == ParseFloat(value)
            IN  IF p.ok THEN [err |-> NoError, v |-> p.v]
                ELSE [err |-> InvalidNumber, v |-> v]
      [] kind = "bool" -> [err |-> NoError, v |-> BoolV(isTrue(value))]
      [] OTHER -> [err |-> UnsupportedType, v |-> v]

\* a setField that allocates behind a nil pointer only once the pointee
\* could be set
setFieldAllocatingOnSuccess(field, v, value) ==
    LET set == setScalar(field.kind,
                         IF field.ptr /\ v = Nil THEN ZeroOfKind(field.kind) ELSE v, value)
    IN  IF set.err # NoError THEN [err |-> set.err, v |-> v] ELSE set

\* setField on member `field` holding v: a nil pointer is allocated first,
\* then the pointee is set
setField(field, v, value) ==
    IF field.ptr
    THEN setScalar(field.kind, IF v = Nil THEN ZeroOfKind(field.kind) ELSE v, value)
    ELSE setScalar(field.kind, v, value)

(***************************************************************************)
(* The request and the four resolvers                                      *)
(***************************************************************************)
\* values of key k in a sequence of <<key, value>> pairs, in order
RECURSIVE ValuesOf(_, _)
ValuesOf(pairs, k) ==
    IF pairs = <<>> THEN <<>>
    ELSE (IF Head(pairs)[1] = k THEN <<Head(pairs)[2]>> ELSE <<>>)
         \o ValuesOf(Tail(pairs), k)

\* r.URL.Query(): the query string's pairs as a map from key to its values
URLQuery(req) ==
    [k \in {req.query[j][1] : j \in 1..Len(req.query)} |-> ValuesOf(req.query, k)]

\* r.Header.Get(key)
HeaderGet(req, key) ==
    LET k == CanonicalMIMEHeaderKey(key)
    IN  IF k \in DOMAIN req.header /\ req.header[k] # <<>>
        THEN req.header[k][1] ELSE Empty

\* r.Cookie(name): the first cookie of that name, or ErrNoCookie
Cookie(req, name) ==
    LET hit == {j \in 1..Len(req.cookies) : req.cookies[j].Name = name}
    IN  IF name = Empty \/ hit = {} THEN [ok |-> FALSE, cookie |-> [Name |-> Empty, Value |-> Empty]]
        ELSE [ok |-> TRUE, cookie |-> req.cookies[CHOOSE j \in hit : \A l \in hit : j <= l]]

defaultPathLookuper(req, name) == [value |-> Empty, ok |-> FALSE]

\* a lookuper a router installs with SetPathLookuper: the route's variables
routerPathLookuper(req, name) ==
    IF name \in DOMAIN req.pathVars THEN [value |-> req.pathVars[name], ok |-> TRUE]
    ELSE [value |-> Empty, ok |-> FALSE]

pathLookup(lookuper, req, name) ==
    IF lookuper = "default" THEN defaultPathLookuper(req, name)
    ELSE routerPathLookuper(req, name)

\* a cache scan that never finds anything
findCookieValMissing(din, name) == [value |-> Empty, ok |-> FALSE]

findCookieVal(din, name) ==
    LET hit == {j \in 1..Len(din.parsedCookies) : din.parsedCookies[j].Name = name}
    IN  IF hit = {} THEN [value |-> Empty, ok |-> FALSE]
        ELSE [value |-> din.parsedCookies[CHOOSE j \in hit : \A l \in hit : j <= l].Value,
              ok |-> TRUE]

\* queryLookup that returns the last value of the key
queryLookupLast(qv, name) ==
    IF name \notin DOMAIN qv \/ Len(qv[name]) = 0
    THEN [value |-> Empty, ok |-> FALSE]
    ELSE [value |-> qv[name][Len(qv[name])], ok |-> TRUE]

\* queryLookup that reports a missing key as present and empty, as the
\* header resolver does
queryLookupAlwaysPresent(qv, name) ==
    IF name \notin DOMAIN qv \/ Len(qv[name]) = 0
    THEN [value |-> Empty, ok |-> TRUE]
    ELSE [value |-> qv[name][1], ok |-> TRUE]

\* vals, ok := in.queryVals[name]: absent without the key or without a
\* value, else the first value
queryLookup(qv, name) ==
    IF name \notin DOMAIN qv \/ Len(qv[name]) = 0
    THEN [value |-> Empty, ok |-> FALSE]
    ELSE [value |-> qv[name][1], ok |-> TRUE]

\* a getValue that does not keep the table it parsed
forgetQueryVals(din, qv) == din

\* in.queryVals = in.r.URL.Query(): the table, never nil, is kept in the
\* call's decodeIn
keepQueryVals(din, qv) == [din EXCEPT !.queryVals = [isNil |-> FALSE, m |-> qv]]

\* getValue: the raw value, whether it is present, and the decodeIn after
getValue(din, req, lookuper, name, tagType) ==
    CASE tagType = tagTypeQuery ->
            LET qv   == IF din.queryVals.isNil THEN URLQuery(req) ELSE din.queryVals.m
                din2 == keepQueryVals(din, qv)
                got  == queryLookup(qv, name)
            IN  [value |-> got.value, ok |-> got.ok, in |-> din2]
      [] tagType = tagTypePath ->
            LET p == pathLookup(lookuper, req, name)
            IN  [value |-> p.value, ok |-> p.ok, in |-> din]
      [] tagType = tagTypeHeader ->
            [value |-> HeaderGet(req, name), ok |-> TRUE, in |-> din]
      [] tagType = tagTypeCookie ->
            LET cached == findCookieVal(din, name)
                c      == Cookie(req, name)
            IN  IF cached.ok THEN [value |-> cached.value, ok |-> TRUE, in |-> din]
                ELSE IF ~c.ok THEN [value |-> Empty, ok |-> FALSE, in |-> din]
                ELSE [value |-> c.cookie.Value, ok |-> TRUE,
                      in |-> [din EXCEPT !.parsedCookies = Append(@, c.cookie)]]
      [] OTHER -> [value |-> Empty, ok |-> FALSE, in |-> din]

(***************************************************************************)
(* encoding/json: Decode of the body into the destination                  *)
(***************************************************************************)
\* JSON values of a body
JStr(s) == [t |-> "str", s |-> s, n |-> 0, members |-> <<>>]
JNum(n) == [t |-> "num", s |-> Empty, n |-> n, members |-> <<>>]
JObj(members) == [t |-> "obj", s |-> Empty, n |-> 0, members |-> members]
JMember(key, val) == [key |-> key, val |-> val]

\* the name encoding/json knows a member by; ok is FALSE for json:"-"
JSONName(field) ==
    LET j == Lookup(field.tag, "json")
        n == BeforeComma(j.v)
    IN  IF j.ok /\ j.v = <<"-">> THEN [ok |-> FALSE, name |-> Empty]
        ELSE IF j.ok /\ n # Empty THEN [ok |-> TRUE, name |-> n]
        ELSE [ok |-> TRUE, name |-> field.name]

\* the member an object key decodes into: an exact match of the name first,
\* else the first case-insensitive match; 0 when there is none
JSONField(fields, key) ==
    LET exact == {k \in 1..Len(fields) : JSONName(fields[k]).ok /\ JSONName(fields[k]).name = key}
        fold  == {k \in 1..Len(fields) : JSONName(fields[k]).ok /\ EqualFold(JSONName(fields[k]).name, key)}
    IN  IF exact # {} THEN CHOOSE k \in exact : \A l \in exact : k <= l
        ELSE IF fold # {} THEN CHOOSE k \in fold : \A l \in fold : k <= l
        ELSE 0

\* a JSON value stored into a member that is not a nested record: ok is
\* FALSE for an UnmarshalTypeError, which leaves the member as it was
JSONScalar(field, val) ==
    CASE field.kind = "string" /\ val.t = "str" -> [ok |-> TRUE, v |-> StrV(val.s)]
      [] field.kind = "int" /\ val.t = "num" -> [ok |-> TRUE, v |-> IntV(val.n)]
      [] field.kind = "int8" /\ val.t = "num" /\ val.n \in -128..127 -> [ok |-> TRUE, v |-> IntV(val.n)]
      [] field.kind = "uint" /\ val.t = "num" /\ val.n >= 0 -> [ok |-> TRUE, v |-> IntV(val.n)]
      [] field.kind = "uint8" /\ val.t = "num" /\ val.n \in 0..255 -> [ok |-> TRUE, v |-> IntV(val.n)]
      [] field.kind \in FloatKinds /\ val.t = "num" ->
            [ok |-> TRUE, v |-> FloatV(val.n < 0, IF val.n < 0 THEN 0 - val.n ELSE val.n, Empty)]
      [] field.kind = "struct" /\ val.t = "obj" -> [ok |-> TRUE, v |-> NewStruct]
      [] OTHER -> [ok |-> FALSE, v |-> Nil]

\* an object decoded into the record at `prefix`, member by member; acc
\* carries the destination, the paths written and the first type error
RECURSIVE JSONObject(_, _, _, _)
JSONObject(fields, prefix, members, acc) ==
    IF members = <<>> THEN acc
    ELSE
        LET m    == Head(members)
            k    == JSONField(fields, m.key)
            f    == fields[k]
            p    == prefix \o <<k>>
            sc   == JSONScalar(f, m.val)
            next ==
                IF k = 0 THEN acc
                ELSE IF f.kind = "struct" /\ ~f.ptr
                THEN IF m.val.t = "obj"
                     THEN JSONObject(f.fields, p, m.val.members, acc)
                     ELSE [acc EXCEPT !.err = IF @ = NoError THEN BodyDecodeError ELSE @]
                ELSE IF sc.ok
                THEN [acc EXCEPT !.dest[p] = sc.v, !.written = @ \cup {p}]
                ELSE [acc EXCEPT !.err = IF @ = NoError THEN BodyDecodeError ELSE @]
        IN  JSONObject(fields, prefix, Tail(members), next)

\* json.NewDecoder(r.Body).Decode(dest): a body that is not a well-formed
\* JSON object fails before anything is stored
JSONDecode(ref, fields, d, body) ==
    IF ~body.wellFormed THEN [dest |-> d, written |-> {}, err |-> BodyDecodeError]
    \* the value is read off the body first, then the destination is checked
    ELSE IF ref \in {"nil", "value"}
    THEN [dest |-> d, written |-> {}, err |-> InvalidUnmarshalError]
    \* an object cannot be stored into an int: *json.UnmarshalTypeError
    ELSE IF ref = "ptrScalar"
    THEN [dest |-> d, written |-> {}, err |-> BodyDecodeError]
    ELSE JSONObject(fields, <<>>, body.members, [dest |-> d, written |-> {}, err |-> NoError])

(***************************************************************************)
(* Destinations and requests the calls are made with                       *)
(***************************************************************************)
\* longest query string, in key=value pairs
MaxQueryLen == 2

sAbc == <<"a", "b", "c">>
s30 == <<"3", "0">>
s7 == <<"7">>
sTrue == <<"t", "r", "u", "e">>
sDflt == <<"d", "f", "l", "t">>

QueryTag(s) == [NoTags EXCEPT !.query = Tag(s)]
PathTag(s) == [NoTags EXCEPT !.path = Tag(s)]
HeaderTag(s) == [NoTags EXCEPT !.header = Tag(s)]
CookieTag(s) == [NoTags EXCEPT !.cookie = Tag(s)]
JSONTag(s) == [NoTags EXCEPT !.json = Tag(s)]

\* a record nested two deep whose members use all four sources, with
\* members declared after each nested record
NestedType ==
    << Struct(<<"N">>, QueryTag(<<"n">>),
          << Scalar(<<"F">>, QueryTag(<<"f">>), "string"),
             Scalar(<<"L">>, PathTag(<<"l">>), "string"),
             Pointer(<<"M">>, CookieTag(<<"m">>), "string"),
             Struct(<<"D">>, HeaderTag(<<"d">>),
                << Scalar(<<"H">>, HeaderTag(<<"h">>), "string") >>),
             Scalar(<<"Z">>, QueryTag(<<"z">>), "int") >>),
       Scalar(<<"A">>, QueryTag(<<"a">>), "int") >>

\* json-only members beside query members, and one member with both tags
MixedType ==
    << Scalar(<<"H", "o", "s", "t">>, JSONTag(<<"h", "o", "s", "t">>), "string"),
       Scalar(<<"A", "g", "e">>, QueryTag(<<"a">>), "int"),
       Scalar(<<"T", "o", "k">>,
              [NoTags EXCEPT !.json = Tag(<<"t", "o", "k">>), !.query = Tag(<<"t">>)],
              "string"),
       Struct(<<"C", "f", "g">>, JSONTag(<<"c", "f", "g">>),
          << Scalar(<<"P", "o", "r", "t">>, JSONTag(<<"p", "o", "r", "t">>), "int") >>) >>

\* header members of each shape
HeaderType ==
    << Scalar(<<"S">>, HeaderTag(<<"x", "-", "s">>), "string"),
       Scalar(<<"B">>, HeaderTag(<<"x", "-", "b">>), "bool"),
       Pointer(<<"P">>, HeaderTag(<<"x", "-", "p">>), "string"),
       Scalar(<<"I">>, HeaderTag(<<"x", "-", "i">>), "int") >>

\* numeric members in a row, then one more member
NumbersType ==
    << Scalar(<<"A">>, QueryTag(<<"a">>), "int"),
       Pointer(<<"B">>, QueryTag(<<"b">>), "uint"),
       Scalar(<<"C">>, QueryTag(<<"c">>), "bool") >>

\* members of shapes setField has no case for: a list, a pointer to a
\* record, and after them a member it can set
ShapesType ==
    << Scalar(<<"L">>, QueryTag(<<"l">>), "slice"),
       Pointer(<<"R">>, CookieTag(<<"r">>), "struct"),
       Scalar(<<"A">>, QueryTag(<<"a">>), "int") >>

\* a record sourced from the path with a query member in it, a pointer to
\* a record sourced from the query, an unexported member, an exported one
DocType ==
    << Struct(<<"P">>, PathTag(<<"p">>),
          << Scalar(<<"F">>, QueryTag(<<"f">>), "string") >>),
       Field(<<"R">>, QueryTag(<<"r">>), "struct", TRUE,
          << Scalar(<<"X">>, QueryTag(<<"x">>), "string") >>),
       Scalar(<<"u">>, QueryTag(<<"u">>), "string"),
       Scalar(<<"A">>, QueryTag(<<"a">>), "int") >>

\* integers narrower than 64 bits, signed and unsigned, and a wide one
NarrowType ==
    << Scalar(<<"I">>, QueryTag(<<"i">>), "int8"),
       Scalar(<<"U">>, QueryTag(<<"u">>), "uint8"),
       Scalar(<<"W">>, QueryTag(<<"w">>), "int") >>

\* a map member sourced from a header, after a member that can be set
HeaderShapeType ==
    << Scalar(<<"A">>, QueryTag(<<"a">>), "int"),
       Scalar(<<"M">>, HeaderTag(<<"x", "-", "m">>), "map") >>

\* a string member in a nested record, a narrow integer, an unsigned
\* integer behind a pointer, a boolean
RoundTripType ==
    << Struct(<<"N">>, QueryTag(<<"n">>),
          << Scalar(<<"S">>, QueryTag(<<"s">>), "string") >>),
       Scalar(<<"I">>, QueryTag(<<"i">>), "int8"),
       Pointer(<<"U">>, QueryTag(<<"u">>), "uint"),
       Scalar(<<"B">>, QueryTag(<<"b">>), "bool") >>

\* two members that read the same cookie, and one that reads another
CookieType ==
    << Scalar(<<"A">>, CookieTag(<<"k">>), "string"),
       Pointer(<<"B">>, CookieTag(<<"k">>), "string"),
       Scalar(<<"C">>, CookieTag(<<"x">>), "string"),
       Scalar(<<"D">>, CookieTag(<<"x">>), "string") >>

\* a boolean member
BoolType == << Scalar(<<"B">>, QueryTag(<<"b">>), "bool") >>

\* raw values for a boolean member
BoolWords ==
    { sTrue, <<"T", "r", "u", "e">>, <<"f", "a", "l", "s", "e">>,
      <<"F", "a", "l", "s", "e">>, <<"1">>, <<"y", "e", "s">>, Empty }

\* what one annotation of a member can be: not there, there with an empty
\* name, there with a name
TagChoices(name) == {NoTag, Tag(Empty), Tag(name)}

\* one string member for every combination of the four source annotations,
\* with and without a json annotation
PriorityTypes ==
    { << Scalar(<<"X">>,
                [json |-> j, query |-> q, path |-> p, header |-> h, cookie |-> c],
                "string") >> :
        <<j, q, p, h, c>> \in {NoTag, Tag(<<"j">>)} \X TagChoices(<<"q">>)
            \X TagChoices(<<"p">>) \X TagChoices(<<"h">>) \X TagChoices(<<"c">>) }

ContentTypeKey == <<"C", "o", "n", "t", "e", "n", "t", "-", "T", "y", "p", "e">>

ApplicationJSON ==
    <<"a", "p", "p", "l", "i", "c", "a", "t", "i", "o", "n", "/", "j", "s", "o", "n">>

\* Content-Type values: the JSON media type, it with a parameter, it in
\* another letter case, it with a prefix, another type
ContentTypes ==
    { ApplicationJSON,
      ApplicationJSON \o <<";", " ", "c", "h", "a", "r", "s", "e", "t", "=", "u", "t", "f", "-", "8">>,
      <<"A", "p", "p", "l", "i", "c", "a", "t", "i", "o", "n", "/", "J", "S", "O", "N">>,
      <<"x">> \o ApplicationJSON,
      <<"t", "e", "x", "t", "/", "p", "l", "a", "i", "n">> }

\* header maps that say the content type, and the one that has no such header
ContentTypeHeaders ==
    {<<>>} \cup { [k \in {ContentTypeKey} |-> <<ct>>] : ct \in ContentTypes }

MalformedBody == [wellFormed |-> FALSE, members |-> <<>>]
Body(members) == [wellFormed |-> TRUE, members |-> members]

\* bodies for MixedType: malformed; setting the json-only member; also
\* naming a query member by its Go name; the doubly annotated member and the
\* nested record; a string member given a number
MixedBodies ==
    { MalformedBody,
      Body(<< JMember(<<"h", "o", "s", "t">>, JStr(sAbc)) >>),
      Body(<< JMember(<<"h", "o", "s", "t">>, JStr(sAbc)), JMember(<<"a", "g", "e">>, JNum(7)) >>),
      Body(<< JMember(<<"t", "o", "k">>, JStr(sDflt)),
              JMember(<<"c", "f", "g">>, JObj(<< JMember(<<"p", "o", "r", "t">>, JNum(7)) >>)) >>),
      Body(<< JMember(<<"h", "o", "s", "t">>, JNum(7)), JMember(<<"A", "g", "e">>, JNum(7)) >>) }

\* sequences of at most n elements of S
SeqsUpTo(S, n) == UNION { [1..k -> S] : k \in 0..n }

\* query strings of at most MaxQueryLen pairs
Queries(pairs) == SeqsUpTo(pairs, MaxQueryLen)

\* maps that hold any subset of the given keys, each with one value
Maps(keys, val) == { [k \in ks |-> val[k]] : ks \in SUBSET keys }

\* cookie lists over the given cookies, in a fixed order
RECURSIVE SubSeqs(_)
SubSeqs(s) ==
    IF s = <<>> THEN {<<>>}
    ELSE LET rest == SubSeqs(Tail(s))
         IN  rest \cup { <<Head(s)>> \o t : t \in rest }

Request(hdr, body, query, cookies, pathVars) ==
    [header |-> hdr, body |-> body, query |-> query, cookies |-> cookies,
     pathVars |-> pathVars]

NestedRequests ==
    { Request(hdr, MalformedBody, q, ck, pv) :
        hdr \in { [k \in ks |-> <<sAbc>>] : ks \in SUBSET {<<"N", ".", "d", ".", "h">>} },
        q \in Queries({ <<<<"n", ".", "f">>, sAbc>>, <<<<"n", ".", "z">>, s30>>,
                        <<<<"n", ".", "z">>, sAbc>>, <<<<"a">>, s7>>, <<<<"a">>, sAbc>> }),
        ck \in SubSeqs(<< [Name |-> <<"n", ".", "m">>, Value |-> sAbc] >>),
        pv \in { [k \in ks |-> sTrue] : ks \in SUBSET {<<"n", ".", "l">>} } }

MixedRequests ==
    { Request(hdr, body, q, <<>>, <<>>) :
        hdr \in ContentTypeHeaders,
        body \in MixedBodies,
        q \in Queries({ <<<<"a">>, s30>>, <<<<"a">>, sAbc>>, <<<<"t">>, sAbc>> }) }

HeaderRequests ==
    { Request(hdr, MalformedBody, <<>>, <<>>, <<>>) :
        hdr \in { [k \in ks |-> <<IF k = <<"X", "-", "I">> THEN s30
                                  ELSE IF k = <<"X", "-", "B">> THEN sTrue ELSE sAbc>>] :
                  ks \in SUBSET { <<"X", "-", "S">>, <<"X", "-", "B">>,
                                  <<"X", "-", "P">>, <<"X", "-", "I">> } } }

NumbersRequests ==
    { Request(<<>>, MalformedBody, q, <<>>, <<>>) :
        q \in Queries({ <<<<"a">>, s30>>, <<<<"a">>, sAbc>>, <<<<"b">>, s7>>,
                        <<<<"b">>, <<"-", "7">>>>, <<<<"c">>, sTrue>> }) }

PriorityRequests ==
    { Request(hdr, MalformedBody, q, ck, pv) :
        hdr \in { [k \in ks |-> << <<"3">> >>] : ks \in SUBSET {<<"H">>} },
        q \in Queries({ <<<<"q">>, <<"1">>>> }),
        ck \in SubSeqs(<< [Name |-> <<"c">>, Value |-> <<"4">>] >>),
        pv \in { [k \in ks |-> <<"2">>] : ks \in SUBSET {<<"p">>} } }

ShapesRequests ==
    { Request(<<>>, MalformedBody, q, ck, <<>>) :
        q \in Queries({ <<<<"l">>, sAbc>>, <<<<"a">>, s7>> }),
        ck \in SubSeqs(<< [Name |-> <<"r">>, Value |-> sAbc] >>) }

\* requests for DocType; none carries the key u, since reflect panics when
\* setField sets an unexported member
DocRequests ==
    { Request(<<>>, MalformedBody, q, <<>>, <<>>) :
        q \in Queries({ <<<<"p", ".", "f">>, sAbc>>, <<<<"r">>, sAbc>>,
                        <<<<"r", ".", "x">>, sAbc>>, <<<<"a">>, s7>> }) }

\* raw integers inside and outside the range of the 8-bit members
NarrowRequests ==
    { Request(<<>>, MalformedBody, q, <<>>, <<>>) :
        q \in Queries({ <<<<"i">>, <<"1", "2", "7">>>>, <<<<"i">>, <<"2", "0", "0">>>>,
                        <<<<"i">>, <<"-", "1", "2", "9">>>>,
                        <<<<"u">>, <<"2", "5", "5">>>>, <<<<"u">>, <<"3", "0", "0">>>>,
                        <<<<"u">>, <<"-", "1">>>>,
                        <<<<"w">>, <<"3", "0", "0">>>> }) }

HeaderShapeRequests ==
    { Request(hdr, MalformedBody, <<>>, <<>>, <<>>) :
        hdr \in { [k \in ks |-> <<sAbc>>] : ks \in SUBSET {<<"X", "-", "M">>} } }

\* query strings whose keys are the dotted paths of RoundTripType
RoundTripRequests ==
    { Request(<<>>, MalformedBody, q, <<>>, <<>>) :
        q \in Queries({ <<<<"n", ".", "s">>, sAbc>>, <<<<"n", ".", "s">>, Empty>>,
                        <<<<"i">>, <<"-", "7">>>>, <<<<"i">>, <<"+", "7">>>>,
                        <<<<"i">>, <<"3", "0", "0">>>>,
                        <<<<"u">>, s30>>, <<<<"u">>, <<"0", "7">>>>,
                        <<<<"b">>, sTrue>>, <<<<"b">>, <<"y", "e", "s">>>> }) }

\* cookie headers: k once or twice with different values, x, or neither
CookieRequests ==
    { Request(<<>>, MalformedBody, <<>>, ck, <<>>) :
        ck \in SubSeqs(<< [Name |-> <<"k">>, Value |-> sAbc],
                          [Name |-> <<"k">>, Value |-> s7],
                          [Name |-> <<"x">>, Value |-> sTrue] >>) }

BoolRequests ==
    { Request(<<>>, MalformedBody, q, <<>>, <<>>) :
        q \in Queries({ <<<<"b">>, word>> : word \in BoolWords }) }

\* requests for destinations that are not a pointer to a record: with and
\* without the JSON content type, with a malformed body and with {}
DestRequests ==
    { Request(hdr, body, <<>>, <<>>, <<>>) :
        hdr \in { <<>>, [k \in {ContentTypeKey} |-> <<ApplicationJSON>>] },
        body \in { MalformedBody, Body(<<>>) } }

\* destinations that are not a non-nil pointer to a record
InvalidDestRefs == {"nil", "value", "ptrScalar"}

\* every call: a destination type, a request, and whether the destination
\* comes zeroed or with its members already set
Inputs ==
    ( ({NestedType} \X NestedRequests)
      \cup ({MixedType} \X MixedRequests)
      \cup ({HeaderType} \X HeaderRequests)
      \cup ({NumbersType} \X NumbersRequests)
      \cup ({ShapesType} \X ShapesRequests)
      \cup ({BoolType} \X BoolRequests)
      \cup ({CookieType} \X CookieRequests)
      \cup ({RoundTripType} \X RoundTripRequests)
      \cup ({HeaderShapeType} \X HeaderShapeRequests)
      \cup ({DocType} \X DocRequests)
      \cup ({NarrowType} \X NarrowRequests)
      \cup (PriorityTypes \X PriorityRequests) ) \X BOOLEAN

\* a member's value before the call: its zero value, or a value set earlier
PresetOfKind(kind) ==
    CASE kind = "string" -> StrV(sDflt)
      [] kind \in IntKinds \cup UintKinds -> IntV(5)
      [] kind \in FloatKinds -> FloatV(FALSE, 5, Empty)
      [] kind = "bool" -> BoolV(TRUE)
      [] kind = "struct" -> NewStruct
      [] OTHER -> Nil

\* the pointee of a *int destination
ScalarDest == [p \in {<<>>} |-> IntV(0)]

\* what a destination that is not a pointer to a record holds: nothing
\* behind a nil pointer, the members of a record passed by value
InvalidDest(ref) ==
    CASE ref = "nil" -> <<>>
      [] ref = "ptrScalar" -> ScalarDest
      [] OTHER -> [p \in LeafPaths(NumbersType, <<>>) |-> ZeroValue(FieldAt(NumbersType, p))]

InitialDest(fields, preset) ==
    [p \in LeafPaths(fields, <<>>) |->
        IF preset THEN PresetOfKind(FieldAt(fields, p).kind)
        ELSE ZeroValue(FieldAt(fields, p))]

(***************************************************************************)
(* The state machine of Unmarshal                                          *)
(***************************************************************************)
NoRequest == Request(<<>>, MalformedBody, <<>>, <<>>, <<>>)

NewDecodeIn == [queryVals |-> [isNil |-> TRUE, m |-> <<>>], parsedCookies |-> <<>>]

NoBuf == [held |-> FALSE, ptr |-> 0]

\* http.StatusBadRequest, http.StatusInternalServerError, and the status
\* the first Write of the encoder sends
StatusBadRequest == 400
StatusInternalServerError == 500
StatusOK == 200

\* nothing written to the http.ResponseWriter, hndl not called
NoResponse == [status |-> 0, body |-> "none", hndl |-> 0, req |-> <<>>, result |-> "none"]

\* bytesPool.New: buf := make([]byte, 0, 64); return &buf
NewBuffer == [slice |-> Empty, array |-> Empty]

\* what a call has done so far
NewObs(d) ==
    [ dest0       |-> d,      \* the destination as the caller passed it
      bodyRead    |-> FALSE,  \* the body was handed to the JSON decoder
      jsonWritten |-> {},     \* members the JSON decode stored into
      destBody    |-> d,      \* the destination when the body step ended
      borrowed    |-> FALSE,  \* bytesPool.Get was called
      visited     |-> <<>>,   \* members findInTag accepted, in order
      lookups     |-> <<>>,   \* getValue calls: member, source, key, result,
                              \* and the member's value before and after
      setCalls    |-> <<>>,   \* members setField was called on, in order
      queryParses |-> 0,      \* calls of r.URL.Query()
      cookieScans |-> <<>>,   \* names r.Cookie was called with
      failedAt    |-> <<>> ]  \* the member whose setField failed

Idle ==
    /\ pc = "idle"
    /\ destType = <<>>
    /\ r = NoRequest
    /\ dest = <<>>
    /\ in = NewDecodeIn
    /\ stack = <<>>
    /\ err = NoError
    /\ buf = NoBuf
    /\ obs = NewObs(<<>>)
    /\ destRef = "ptr"
    /\ w = NoResponse

Init ==
    /\ Idle
    /\ bytesPool = <<>>
    /\ heap = <<>>
    /\ calls = <<>>
    /\ currentPathLookuper = "default"

\* SetPathLookuper, called before requests are served
SetPathLookuper ==
    /\ pc = "idle"
    /\ currentPathLookuper = "default"
    /\ currentPathLookuper' = "router"
    /\ UNCHANGED <<pc, destType, destRef, r, dest, in, stack, err, buf, bytesPool, heap, obs, calls, w>>

\* a caller enters Unmarshal(r, &dest)
UnmarshalCall ==
    /\ pc = "idle"
    /\ \/ \E inp \in Inputs :
             /\ destType' = inp[1][1]
             /\ destRef' = "ptr"
             /\ r' = inp[1][2]
             /\ dest' = InitialDest(inp[1][1], inp[2])
             /\ obs' = NewObs(InitialDest(inp[1][1], inp[2]))
       \/ \E ref \in InvalidDestRefs, req \in DestRequests :
             /\ destType' = IF ref = "ptrScalar" THEN <<>> ELSE NumbersType
             /\ destRef' = ref
             /\ r' = req
             /\ dest' = InvalidDest(ref)
             /\ obs' = NewObs(InvalidDest(ref))
    /\ pc' = "body"
    /\ UNCHANGED <<in, stack, err, buf, bytesPool, heap, currentPathLookuper, calls, w>>

\* the content-type gate as a prefix test, which lets parameters through
isJSONRequestByPrefix(req) ==
    LET ct == HeaderGet(req, ContentTypeKey)
    IN  Len(ct) >= Len(ApplicationJSON) /\ SubSeq(ct, 1, Len(ApplicationJSON)) = ApplicationJSON

\* r.Header.Get("Content-Type") == "application/json"
isJSONRequest(req) == HeaderGet(req, ContentTypeKey) = ApplicationJSON

\* the body step without its return on error
afterBodyIgnoringError(e) == "validate"

\* if err := ...Decode(dest); err != nil { return err }
afterBody(e) == IF e # NoError THEN "done" ELSE "validate"

\* the body step: decode the body when the content type says JSON, and
\* return the decoder's error at once
UnmarshalBody ==
    /\ pc = "body"
    /\ IF isJSONRequest(r)
       THEN LET res == JSONDecode(destRef, destType, dest, r.body)
            IN  /\ dest' = res.dest
                /\ obs' = [obs EXCEPT !.bodyRead = TRUE, !.jsonWritten = res.written,
                                      !.destBody = res.dest]
                /\ err' = res.err
                /\ pc' = afterBody(res.err)
       ELSE /\ pc' = "validate"
            /\ UNCHANGED <<dest, obs, err>>
    /\ UNCHANGED <<destType, destRef, r, in, stack, buf, bytesPool, heap, currentPathLookuper, calls, w>>

\* the destination check that refuses only a nil pointer
isInvalidDestinationNilOnly(ref) == ref = "nil"

\* v.Kind() != reflect.Ptr || v.IsNil()
isInvalidDestination(ref) == ref \in {"nil", "value"}

\* the sequence s without its k-th element
RemoveAt(s, k) == SubSeq(s, 1, k - 1) \o SubSeq(s, k + 1, Len(s))

\* a Get that hands a pointer out and leaves it in the pool
PoolGetWithoutRemoving(pool, hp) ==
    IF pool = <<>>
    THEN { [ptr |-> Len(hp) + 1, pool |-> pool, heap |-> Append(hp, NewBuffer)] }
    ELSE { [ptr |-> pool[k], pool |-> pool, heap |-> hp] : k \in 1..Len(pool) }

\* bytesPool.Get(): the outcomes Get can have.  It removes and returns any
\* one pointer of the pool; with nothing in the pool it returns what New makes
PoolGet(pool, hp) ==
    IF pool = <<>>
    THEN { [ptr |-> Len(hp) + 1, pool |-> pool, heap |-> Append(hp, NewBuffer)] }
    ELSE { [ptr |-> pool[k], pool |-> RemoveAt(pool, k), heap |-> hp] :
              k \in 1..Len(pool) }

\* a Put that loses the buffer
PoolPutDropping(pool, ptr) == pool

\* bytesPool.Put(buf).  The pool has no order: it is kept as the sorted
\* sequence of the pointers put into it
PoolPut(pool, ptr) ==
    LET k == Cardinality({j \in 1..Len(pool) : pool[j] <= ptr})
    IN  SubSeq(pool, 1, k) \o <<ptr>> \o SubSeq(pool, k + 1, Len(pool))

\* s = s[:0]
resetSlice(s) == SubSeq(s, 1, 0)

\* the destination is a non-nil pointer to a record: borrow the buffer and
\* start decode on the record with the buffer as the name path
UnmarshalBorrow ==
    /\ pc = "validate"
    /\ ~isInvalidDestination(destRef)
    /\ \E g \in PoolGet(bytesPool, heap) :
          /\ buf' = [held |-> TRUE, ptr |-> g.ptr]
          /\ bytesPool' = g.pool
          /\ heap' = g.heap
          /\ stack' = << [path |-> <<>>, i |-> 1, fullName |-> g.heap[g.ptr].slice] >>
    /\ in' = NewDecodeIn
    /\ obs' = [obs EXCEPT !.borrowed = TRUE]
    /\ pc' = "walk"
    /\ UNCHANGED <<destType, destRef, r, dest, err, currentPathLookuper, calls, w>>

\* the destination is refused
UnmarshalInvalid ==
    /\ pc = "validate"
    /\ isInvalidDestination(destRef)
    /\ err' = InvalidDestination
    /\ pc' = "done"
    /\ UNCHANGED <<destType, destRef, r, dest, in, stack, buf, bytesPool, heap,
                   currentPathLookuper, obs, calls, w>>

\* decode on a value that is neither a pointer nor a record: the default
\* case of its switch
DecodeUnsupported ==
    /\ pc = "walk"
    /\ destRef = "ptrScalar"
    /\ err' = UnsupportedType
    /\ stack' = <<>>
    /\ pc' = "defer"
    /\ UNCHANGED <<destType, destRef, r, dest, in, buf, bytesPool, heap,
                   currentPathLookuper, obs, calls, w>>

\* the running decode() frame, its record's members and the member at i
Top == stack[Len(stack)]
TopFields == FieldsAt(destType, Top.path)
TopField == TopFields[Top.i]
TopPath == Top.path \o <<Top.i>>
InLoop == pc = "walk" /\ destRef = "ptr" /\ stack # <<>> /\ Top.i <= Len(TopFields)

SetTop(f) == [stack EXCEPT ![Len(stack)] = f]

\* findInTag finds none of the four annotations: continue
DecodeSkip ==
    /\ InLoop
    /\ ~findInTag(TopField).ok
    /\ stack' = SetTop([Top EXCEPT !.i = @ + 1])
    /\ UNCHANGED <<pc, destType, destRef, r, dest, in, err, buf, bytesPool, heap, currentPathLookuper, obs, calls, w>>

\* a nested record: push its name and the delimiter, and decode it
DecodeNested ==
    /\ InLoop
    /\ findInTag(TopField).ok
    /\ TopField.kind = "struct" /\ ~TopField.ptr
    /\ LET name == findInTag(TopField).name
           full == appendWithDelimiter(Top.fullName, name)
       IN  stack' = Append(SetTop([Top EXCEPT !.fullName = full]),
                           [path |-> TopPath, i |-> 1, fullName |-> full])
    /\ obs' = [obs EXCEPT !.visited = Append(@, TopPath)]
    /\ UNCHANGED <<pc, destType, destRef, r, dest, in, err, buf, bytesPool, heap, currentPathLookuper, calls, w>>

\* the nested decode returned nil: pop its name, continue with the next member
DecodeNestedReturn ==
    /\ pc = "walk"
    /\ Len(stack) > 1
    /\ Top.i > Len(TopFields)
    /\ LET parent == stack[Len(stack) - 1]
           name   == findInTag(FieldsAt(destType, parent.path)[parent.i]).name
       IN  stack' = [SubSeq(stack, 1, Len(stack) - 1) EXCEPT ![Len(stack) - 1] =
                        [parent EXCEPT !.fullName = popWithDelimiter(@, name),
                                       !.i = @ + 1]]
    /\ UNCHANGED <<pc, destType, destRef, r, dest, in, err, buf, bytesPool, heap, currentPathLookuper, obs, calls, w>>

\* any other member: look its value up under the full name, restore the
\* name path, and set the member when the value is present
DecodeScalar ==
    /\ InLoop
    /\ findInTag(TopField).ok
    /\ ~(TopField.kind = "struct" /\ ~TopField.ptr)
    /\ LET tg    == findInTag(TopField)
           key   == appendName(Top.fullName, tg.name)
           got   == getValue(in, r, currentPathLookuper, key, tg.tagType)
           after == truncateName(key, tg.name)
           set   == setField(TopField, dest[TopPath], got.value)
           scan  == tg.tagType = tagTypeCookie /\ ~findCookieVal(in, key).ok
           obs1  == [obs EXCEPT
                        !.visited = Append(@, TopPath),
                        !.lookups = Append(@, [path |-> TopPath, tagType |-> tg.tagType,
                                               key |-> key, ok |-> got.ok,
                                               value |-> got.value,
                                               before |-> dest[TopPath],
                                               after |-> IF got.ok THEN set.v
                                                         ELSE dest[TopPath]]),
                        !.queryParses = IF tg.tagType = tagTypeQuery /\ in.queryVals.isNil
                                        THEN @ + 1 ELSE @,
                        !.cookieScans = IF scan THEN Append(@, key) ELSE @]
       IN  /\ in' = got.in
           /\ IF ~got.ok
              THEN /\ stack' = SetTop([Top EXCEPT !.fullName = after, !.i = @ + 1])
                   /\ obs' = obs1
                   /\ UNCHANGED <<pc, dest, err>>
              ELSE /\ dest' = [dest EXCEPT ![TopPath] = set.v]
                   /\ IF set.err = NoError
                      THEN /\ stack' = SetTop([Top EXCEPT !.fullName = after, !.i = @ + 1])
                           /\ obs' = [obs1 EXCEPT !.setCalls = Append(@, TopPath)]
                           /\ UNCHANGED <<pc, err>>
                      ELSE /\ stack' = <<>>
                           /\ obs' = [obs1 EXCEPT !.setCalls = Append(@, TopPath),
                                                  !.failedAt = TopPath]
                           /\ err' = set.err
                           /\ pc' = "defer"
    /\ UNCHANGED <<destType, destRef, r, buf, bytesPool, heap, currentPathLookuper, calls, w>>

\* the outermost decode ran off the end of its loop: return nil
DecodeDone ==
    /\ pc = "walk"
    /\ destRef = "ptr"
    /\ Len(stack) = 1
    /\ Top.i > Len(TopFields)
    /\ stack' = <<>>
    /\ pc' = "defer"
    /\ UNCHANGED <<destType, destRef, r, dest, in, err, buf, bytesPool, heap, currentPathLookuper, obs, calls, w>>

\* the deferred function: cut the buffer to length 0 and put it back
DeferredPut ==
    /\ pc = "defer"
    /\ heap' = [heap EXCEPT ![buf.ptr].slice = resetSlice(@)]
    /\ bytesPool' = PoolPut(bytesPool, buf.ptr)
    /\ buf' = NoBuf
    /\ pc' = "done"
    /\ UNCHANGED <<destType, destRef, r, dest, in, stack, err, currentPathLookuper, obs, calls, w>>

\* the caller has the result; the process waits for the next request
UnmarshalReturn ==
    /\ pc \in {"done", "served"}
    /\ pc' = "idle"
    /\ w' = NoResponse
    /\ destType' = <<>>
    /\ destRef' = "ptr"
    /\ r' = NoRequest
    /\ dest' = <<>>
    /\ in' = NewDecodeIn
    /\ stack' = <<>>
    /\ err' = NoError
    /\ buf' = NoBuf
    /\ obs' = NewObs(<<>>)
    /\ UNCHANGED <<bytesPool, heap, currentPathLookuper, calls>>

\* the Mux handler that ignores the error of Unmarshal
muxAfterUnmarshalAlwaysHandle(e) == "handle"

\* if err := httpio.Unmarshal(r, &req); err != nil { ...; return }
muxAfterUnmarshal(e) == IF e # NoError THEN "reject" ELSE "handle"

\* the call was made by the handler RegisterHandler installs, on the zero
\* value of the request type: var req Req; httpio.Unmarshal(r, &req)
CalledByMux ==
    /\ pc = "done"
    /\ destRef \in {"ptr", "ptrScalar"}
    /\ obs.dest0 = (IF destRef = "ptr" THEN InitialDest(destType, FALSE) ELSE ScalarDest)

\* Unmarshal failed: http.Error(w, err.Error(), http.StatusBadRequest)
ServeBadRequest ==
    /\ CalledByMux
    /\ muxAfterUnmarshal(err) = "reject"
    /\ w' = [w EXCEPT !.status = StatusBadRequest, !.body = "error"]
    /\ pc' = "served"
    /\ UNCHANGED <<destType, destRef, r, dest, in, stack, err, buf, bytesPool, heap,
                   calls, currentPathLookuper, obs>>

\* what hndl and the encoding of its response can come to
HandlerOutcomes == {"ok", "error", "unencodable"}

\* resp, err := hndl(ctx, req): an error of hndl or of the encoder is
\* answered with http.Error 500, a response is encoded as the JSON body
ServeHandler ==
    /\ CalledByMux
    /\ muxAfterUnmarshal(err) = "handle"
    /\ \E out \in HandlerOutcomes :
          w' = [w EXCEPT !.hndl = @ + 1, !.req = dest, !.result = out,
                         !.status = IF out = "ok" THEN StatusOK
                                    ELSE StatusInternalServerError,
                         !.body = IF out = "ok" THEN "json" ELSE "error"]
    /\ pc' = "served"
    /\ UNCHANGED <<destType, destRef, r, dest, in, stack, err, buf, bytesPool, heap,
                   calls, currentPathLookuper, obs>>

Next ==
    \/ SetPathLookuper
    \/ UnmarshalCall
    \/ UnmarshalBody
    \/ UnmarshalInvalid
    \/ UnmarshalBorrow
    \/ DecodeUnsupported
    \/ DecodeSkip
    \/ DecodeNested
    \/ DecodeNestedReturn
    \/ DecodeScalar
    \/ DecodeDone
    \/ DeferredPut
    \/ ServeBadRequest
    \/ ServeHandler
    \/ UnmarshalReturn

Spec == Init /\ [][Next]_vars

TypeOK ==
    /\ pc \in {"idle", "body", "validate", "walk", "defer", "done", "served"}
    /\ w.status \in {0, StatusOK, StatusBadRequest, StatusInternalServerError}
    /\ err \in {NoError, BodyDecodeError, InvalidDestination, UnsupportedType,
                InvalidNumber, InvalidUnmarshalError}
    /\ destRef \in {"ptr"} \cup InvalidDestRefs
    /\ buf.held => buf.ptr \in 1..Len(heap)
    /\ currentPathLookuper \in {"default", "router"}

(***************************************************************************)
(* What the claims speak of, stated from the request and the type          *)
(***************************************************************************)
SourcePriority == <<"query", "path", "header", "cookie">>

Least(S) == CHOOSE k \in S : \A l \in S : k <= l

\* the source annotations a member carries with a name that is not empty
NamedSources(field) ==
    {k \in 1..4 : field.tag[SourcePriority[k]].ok /\ field.tag[SourcePriority[k]].v # Empty}

\* the source annotations a member carries at all, named or with an empty name
PresentSources(field) == {k \in 1..4 : field.tag[SourcePriority[k]].ok}

IsSourced(field) == NamedSources(field) # {}
SourceOf(field) == SourcePriority[Least(NamedSources(field))]
SegmentOf(field) == field.tag[SourceOf(field)].v

IsNestedRecord(field) == field.kind = "struct" /\ ~field.ptr

\* the segments of the members along a path, outermost first
RECURSIVE Segments(_, _)
Segments(fields, path) ==
    IF path = <<>> THEN <<>>
    ELSE <<SegmentOf(fields[Head(path)])>>
         \o Segments(fields[Head(path)].fields, Tail(path))

\* segments joined by '.', nothing before the first or after the last
RECURSIVE JoinDot(_)
JoinDot(segs) ==
    IF segs = <<>> THEN Empty
    ELSE IF Len(segs) = 1 THEN segs[1]
    ELSE (segs[1] \o <<".">>) \o JoinDot(Tail(segs))

\* the name path while the record at `path` is being walked: every
\* enclosing segment, each followed by '.'
RECURSIVE PathPrefix(_)
PathPrefix(segs) ==
    IF segs = <<>> THEN Empty
    ELSE (segs[1] \o <<".">>) \o PathPrefix(Tail(segs))

\* the members a walk visits, in declaration order, depth first
RECURSIVE WalkOrder(_, _)
WalkOrder(fields, prefix) ==
    IF fields = <<>> THEN <<>>
    ELSE LET f    == Head(fields)
             k    == Len(prefix) + 1
             here == IF ~IsSourced(f) THEN <<>>
                     ELSE IF IsNestedRecord(f)
                     THEN <<prefix>> \o WalkOrder(f.fields, prefix \o <<1>>)
                     ELSE <<prefix>>
         IN  here \o WalkOrder(Tail(fields), [prefix EXCEPT ![Len(prefix)] = @ + 1])

\* WalkOrder of a whole destination type
Traversal(fields) == WalkOrder(fields, <<1>>)

IsPrefixOf(s, t) == Len(s) <= Len(t) /\ s = SubSeq(t, 1, Len(s))

\* the first value the query string gives for a key
QueryHas(req, key) == \E j \in 1..Len(req.query) : req.query[j][1] = key
QueryFirst(req, key) ==
    req.query[Least({j \in 1..Len(req.query) : req.query[j][1] = key})][2]

C2_PathMirrorsStack ==
    /\ pc = "walk" =>
          /\ stack # <<>>
          /\ stack[1].path = <<>>
          /\ \A k \in 1..Len(stack) :
                /\ k < Len(stack) =>
                      /\ stack[k + 1].path = stack[k].path \o <<stack[k].i>>
                      /\ stack[k].fullName = PathPrefix(Segments(destType, stack[k + 1].path))
                /\ k = Len(stack) =>
                      stack[k].fullName = PathPrefix(Segments(destType, stack[k].path))
    /\ \A k \in 1..Len(obs.lookups) :
          LET l == obs.lookups[k]
          IN  l.key = PathPrefix(Segments(destType, SubSeq(l.path, 1, Len(l.path) - 1)))
                         \o SegmentOf(FieldAt(destType, l.path))

\* the walk is at member Z of the nested record, after four siblings, one of
\* them a nested record that was entered and left: the path is "n."
C2_Witness ==
    /\ pc = "walk" /\ destType = NestedType
    /\ Len(stack) = 2 /\ Top.path = <<1>> /\ Top.i = 5
    /\ Top.fullName = <<"n", ".">>
    /\ Len(obs.lookups) = 4

\* every member along the path carries a named source annotation, so the
\* walk can reach the member
Reachable(fields, p) ==
    \A j \in 1..Len(p) : IsSourced(FieldAt(fields, SubSeq(p, 1, j)))

SetPaths == {obs.setCalls[k] : k \in 1..Len(obs.setCalls)}

\* the Content-Type header is there and is exactly "application/json"
ExactJSON(req) ==
    /\ ContentTypeKey \in DOMAIN req.header
    /\ req.header[ContentTypeKey] = <<ApplicationJSON>>

BodyHasString(req, key) ==
    /\ req.body.wellFormed
    /\ \E j \in 1..Len(req.body.members) :
          req.body.members[j].key = key /\ req.body.members[j].val.t = "str"
BodyString(req, key) ==
    req.body.members[Least({j \in 1..Len(req.body.members) :
                               req.body.members[j].key = key})].val.s

\* C4: with the JSON content type, a body that sets the json-only member
\* Host and a query string that sets the query-only member Age, Unmarshal
\* succeeds, Host holds the body's value and Age the query's.
C4_JSONAndQueryBothLand ==
    ( /\ pc = "done" /\ destType = MixedType
      /\ ExactJSON(r)
      /\ BodyHasString(r, <<"h", "o", "s", "t">>)
      /\ QueryHas(r, <<"a">>) /\ QueryFirst(r, <<"a">>) = s30 )
    => /\ err = NoError
       /\ dest[<<1>>] = StrV(BodyString(r, <<"h", "o", "s", "t">>))
       /\ dest[<<2>>] = IntV(30)

\* such a call, from a zeroed destination, with a body that sets Host only
C4_Witness ==
    /\ pc = "done" /\ destType = MixedType /\ ExactJSON(r)
    /\ r.body = Body(<< JMember(<<"h", "o", "s", "t">>, JStr(sAbc)) >>)
    /\ r.query = << <<<<"a">>, s30>>, <<<<"t">>, sAbc>> >>
    /\ obs.dest0[<<1>>] = StrV(Empty) /\ obs.dest0[<<2>>] = IntV(0)
    /\ dest[<<1>>] = StrV(sAbc) /\ dest[<<2>>] = IntV(30) /\ dest[<<3>>] = StrV(sAbc)
    /\ obs.jsonWritten = {<<1>>} /\ SetPaths = {<<2>>, <<3>>}

\* C5: the body is decoded exactly when the Content-Type header is the
\* string "application/json"; with any other value, or no header, the body
\* is not read and stores nothing into the destination.
C5_BodyDecodedIffExactJSON ==
    /\ pc \in {"idle", "body"} => ~obs.bodyRead
    /\ pc \notin {"idle", "body"} =>
          /\ obs.bodyRead <=> ExactJSON(r)
          /\ ~ExactJSON(r) =>
                /\ obs.jsonWritten = {}
                /\ obs.destBody = obs.dest0
                /\ err # BodyDecodeError

\* a call whose Content-Type is the JSON type with a charset parameter and
\* whose body is a well-formed object setting Host: the body was not read
\* and Host kept the value it came with
C5_Witness ==
    /\ pc = "done" /\ destType = MixedType
    /\ ContentTypeKey \in DOMAIN r.header
    /\ IsPrefixOf(ApplicationJSON, r.header[ContentTypeKey][1])
    /\ r.header[ContentTypeKey][1] # ApplicationJSON
    /\ BodyHasString(r, <<"h", "o", "s", "t">>)
    /\ ~obs.bodyRead
    /\ dest[<<1>>] = StrV(sDflt)

\* C6: when the content type matches and the body fails to decode, Unmarshal
\* returns that error at once: no buffer is borrowed, no decode frame runs,
\* no resolver is consulted and no member is set from a source.
C6_BodyErrorAbortsBeforeWalk ==
    /\ (pc \notin {"idle", "body"} /\ ExactJSON(r) /\ ~r.body.wellFormed)
          => err = BodyDecodeError
    /\ err = BodyDecodeError =>
          /\ pc \in {"done", "served"}
          /\ ExactJSON(r)
          /\ ~obs.borrowed /\ ~buf.held /\ stack = <<>>
          /\ obs.visited = <<>> /\ obs.lookups = <<>> /\ obs.setCalls = <<>>
          /\ obs.queryParses = 0 /\ obs.cookieScans = <<>>
          /\ in = NewDecodeIn
          /\ dest = obs.destBody

\* a malformed body beside a query string that carries a=30: the call ended
\* with the decode error and Age was not set
C6_Witness ==
    /\ pc = "done" /\ err = BodyDecodeError /\ destType = MixedType
    /\ ~r.body.wellFormed
    /\ QueryHas(r, <<"a">>) /\ QueryFirst(r, <<"a">>) = s30
    /\ dest[<<2>>] = IntV(0)

\* C7 as stated: the first of query, path, header, cookie that is present on
\* a member determines the source kind and the name segment of its lookup,
\* and a member carrying none of the four is not visited.
C7_Original_FirstPresentWins ==
    /\ \A k \in 1..Len(obs.lookups) :
          LET l  == obs.lookups[k]
              f  == FieldAt(destType, l.path)
              ps == PresentSources(f)
          IN  /\ ps # {}
              /\ l.tagType = SourcePriority[Least(ps)]
              /\ l.key = PathPrefix(Segments(destType, SubSeq(l.path, 1, Len(l.path) - 1)))
                            \o f.tag[SourcePriority[Least(ps)]].v
    /\ \A k \in 1..Len(obs.visited) :
          PresentSources(FieldAt(destType, obs.visited[k])) # {}

\* C7 as amended: the first of query, path, header, cookie that a member
\* carries with a non-empty name determines the source kind and the name
\* segment; an annotation with an empty name is passed over, and a member
\* with no named one of the four (a json-only member included) is not
\* visited, while every member with one is.
C7_FirstNamedWins ==
    /\ \A k \in 1..Len(obs.lookups) :
          LET l  == obs.lookups[k]
              f  == FieldAt(destType, l.path)
              ns == NamedSources(f)
          IN  /\ ns # {}
              /\ l.tagType = SourcePriority[Least(ns)]
              /\ l.key = PathPrefix(Segments(destType, SubSeq(l.path, 1, Len(l.path) - 1)))
                            \o f.tag[SourcePriority[Least(ns)]].v
    /\ \A k \in 1..Len(obs.visited) :
          NamedSources(FieldAt(destType, obs.visited[k])) # {}
    /\ (pc = "done" /\ err = NoError) => obs.visited = Traversal(destType)

\* a member tagged query:"" path:"p" header:"h" cookie:"c" was resolved by
\* the path resolver under the key "p", and holds the path variable
C7_Witness ==
    /\ pc = "done" /\ err = NoError /\ Len(destType) = 1
    /\ destType[1].tag.query = Tag(Empty)
    /\ destType[1].tag.path = Tag(<<"p">>)
    /\ destType[1].tag.header = Tag(<<"h">>)
    /\ destType[1].tag.cookie = Tag(<<"c">>)
    /\ Len(obs.lookups) = 1
    /\ obs.lookups[1].tagType = "path" /\ obs.lookups[1].key = <<"p">>
    /\ QueryHas(r, <<"q">>)
    /\ dest[<<1>>] = StrV(<<"2">>)

\* the request has no value for the lookup: no such query key, no such path
\* variable (or the default lookuper), no such cookie
AbsentInRequest(l) ==
    CASE l.tagType = "query" -> ~QueryHas(r, l.key)
      [] l.tagType = "path" ->
            currentPathLookuper = "default" \/ l.key \notin DOMAIN r.pathVars
      [] l.tagType = "cookie" ->
            \A j \in 1..Len(r.cookies) : r.cookies[j].Name # l.key
      [] OTHER -> FALSE

\* C8: when the request has no value for a query, path or cookie member, the
\* member keeps the value it had, no error is raised and the walk goes on to
\* the next member; the cookie-annotated pointer member stays nil without
\* its cookie and points to the cookie's value with it.
C8_AbsentLeavesMember ==
    /\ \A k \in 1..Len(obs.lookups) :
          LET l == obs.lookups[k]
          IN  AbsentInRequest(l) =>
                 /\ ~l.ok
                 /\ l.after = l.before
                 /\ dest[l.path] = l.before
                 /\ l.path \notin SetPaths
                 /\ obs.failedAt # l.path
                 /\ k = Len(obs.lookups) => err = NoError
    /\ (pc = "done" /\ err = NoError) => obs.visited = Traversal(destType)
    /\ (pc = "done" /\ destType = NestedType) =>
          dest[<<1, 3>>] =
             IF \E j \in 1..Len(r.cookies) : r.cookies[j].Name = <<"n", ".", "m">>
             THEN StrV(r.cookies[Least({j \in 1..Len(r.cookies) :
                                           r.cookies[j].Name = <<"n", ".", "m">>})].Value)
             ELSE obs.dest0[<<1, 3>>]

\* a decode with no cookie, no path variable and no query key n.f: the nil
\* pointer M is still nil, F and L are as they came, and the walk went on to
\* store the later member Z
C8_Witness ==
    /\ pc = "done" /\ err = NoError /\ destType = NestedType
    /\ r.cookies = <<>> /\ ~QueryHas(r, <<"n", ".", "f">>)
    /\ obs.dest0[<<1, 3>>] = Nil /\ dest[<<1, 3>>] = Nil
    /\ dest[<<1, 1>>] = StrV(Empty) /\ dest[<<1, 2>>] = StrV(Empty)
    /\ Len(obs.lookups) = 6
    /\ ~obs.lookups[3].ok /\ obs.lookups[3].tagType = "cookie"
    /\ dest[<<1, 5>>] = IntV(30)

\* the kinds setField has a case for (of the member, or of its pointee)
SupportedKinds == {"string", "bool"} \cup IntKinds \cup UintKinds \cup FloatKinds

\* C9 as stated: the header resolver never reports absence, and a header
\* member whose header the request lacks is overwritten with its type's
\* zero value, with no error.
C9_HeaderAlwaysOverwrites ==
    \A k \in 1..Len(obs.lookups) :
       LET l == obs.lookups[k]
           f == FieldAt(destType, l.path)
       IN  (/\ l.tagType = "header" /\ f.kind \in SupportedKinds
            /\ CanonicalMIMEHeaderKey(l.key) \notin DOMAIN r.header) =>
              /\ l.ok /\ l.value = Empty
              /\ l.after = ZeroOfKind(f.kind)
              /\ dest[l.path] = ZeroOfKind(f.kind)
              /\ obs.failedAt # l.path

\* the part of C9 the code does: a string, bool or pointer-to-string header
\* member whose header is lacking becomes "" or false
C9_HeaderStringsOverwritten ==
    \A k \in 1..Len(obs.lookups) :
       LET l == obs.lookups[k]
           f == FieldAt(destType, l.path)
       IN  (/\ l.tagType = "header" /\ f.kind \in {"string", "bool"}
            /\ CanonicalMIMEHeaderKey(l.key) \notin DOMAIN r.header) =>
              /\ l.ok /\ l.value = Empty
              /\ dest[l.path] = ZeroOfKind(f.kind)

WalkErrors == {InvalidNumber, UnsupportedType}

\* C10: the first error of a walk ends it and is what Unmarshal returns: the
\* members visited are the traversal up to the failing member and no
\* further, every member resolved before it holds what the walk left in it,
\* and no member after it was resolved or written.
C10_FirstErrorAborts ==
    /\ (err \in WalkErrors /\ destRef = "ptr") =>
          /\ pc \in {"defer", "done", "served"} /\ stack = <<>>
          /\ obs.lookups # <<>>
          /\ obs.lookups[Len(obs.lookups)].path = obs.failedAt
          /\ obs.lookups[Len(obs.lookups)].ok
          /\ IsPrefixOf(obs.visited, Traversal(destType))
          /\ obs.visited[Len(obs.visited)] = obs.failedAt
          /\ \A k \in 1..(Len(obs.lookups) - 1) :
                dest[obs.lookups[k].path] = obs.lookups[k].after
          /\ \A p \in DOMAIN dest :
                (\A k \in 1..Len(obs.visited) : obs.visited[k] # p)
                   => dest[p] = obs.destBody[p]
    /\ \A k \in 1..Len(obs.lookups) :
          LET l == obs.lookups[k]
              f == FieldAt(destType, l.path)
          IN  (l.ok /\ f.kind \in IntKinds \cup UintKinds /\ l.value = sAbc) =>
                 /\ k = Len(obs.lookups)
                 /\ err = InvalidNumber
                 /\ pc \in {"defer", "done", "served"}
    /\ ( /\ pc = "done" /\ destType = NumbersType
         /\ QueryHas(r, <<"a">>) /\ QueryFirst(r, <<"a">>) = s30
         /\ QueryHas(r, <<"b">>) /\ QueryFirst(r, <<"b">>) = <<"-", "7">> )
       => /\ err = InvalidNumber
          /\ dest[<<1>>] = IntV(30)
          /\ dest[<<3>>] = obs.dest0[<<3>>]
          /\ Len(obs.lookups) = 2

\* n.z=abc failed inside the nested record: the header member before it
\* holds the header's value, and member A after it was not resolved although
\* the query string carries a=7
C10_Witness ==
    /\ pc = "done" /\ err = InvalidNumber /\ destType = NestedType
    /\ obs.failedAt = <<1, 5>>
    /\ obs.dest0[<<1, 4, 1>>] = StrV(Empty) /\ dest[<<1, 4, 1>>] = StrV(sAbc)
    /\ QueryHas(r, <<"a">>) /\ QueryFirst(r, <<"a">>) = s7
    /\ dest[<<2>>] = IntV(0)
    /\ \A k \in 1..Len(obs.lookups) : obs.lookups[k].path # <<2>>

(***************************************************************************)
(* Members of unsupported shapes, destinations that are not records        *)
(***************************************************************************)
\* a sourced member the walk handles as a value, of a shape setField has no
\* case for
IsUnsupported(field) ==
    IsSourced(field) /\ ~IsNestedRecord(field) /\ field.kind \notin SupportedKinds

HasUnsupported(fields) ==
    \E p \in LeafPaths(fields, <<>>) :
        Reachable(fields, p) /\ IsUnsupported(FieldAt(fields, p))

\* C11 as stated: a destination with a sourced member of an unsupported
\* shape makes the walk fail with UnsupportedType for every request.
C11_Original_AlwaysFails ==
    (pc = "done" /\ destRef = "ptr" /\ HasUnsupported(destType))
       => err = UnsupportedType

\* C11: a sourced member of an unsupported shape fails the walk with
\* UnsupportedType exactly when its resolver reports a value, which the header
\* resolver always does; when the resolver reports absence the member is
\* passed over as it was, without an error, and the walk goes on.  A nil
\* pointer to a record is allocated before the failure.
C11_UnsupportedFailsWhenPresent ==
    \A k \in 1..Len(obs.lookups) :
       LET l == obs.lookups[k]
           f == FieldAt(destType, l.path)
       IN  (destRef = "ptr" /\ IsUnsupported(f)) =>
              /\ l.tagType = "header" => l.ok
              /\ l.ok =>
                    /\ err = UnsupportedType
                    /\ pc \in {"defer", "done", "served"}
                    /\ k = Len(obs.lookups)
                    /\ obs.failedAt = l.path
                    /\ dest[l.path] = IF f.ptr /\ l.before = Nil
                                      THEN ZeroOfKind(f.kind) ELSE l.before
              /\ ~l.ok =>
                    /\ dest[l.path] = l.before
                    /\ obs.failedAt # l.path
                    /\ (pc = "done" /\ k = Len(obs.lookups)) => err = NoError

\* the list member and the pointer-to-record member were passed over for
\* want of l and r, the int member after them was set, and the call succeeded
C11_PassedOver ==
    /\ pc = "done" /\ destType = ShapesType /\ err = NoError
    /\ Len(obs.lookups) = 3
    /\ ~obs.lookups[1].ok /\ ~obs.lookups[2].ok
    /\ dest[<<2>>] = Nil
    /\ dest[<<3>>] = IntV(7)

\* with the cookie r the pointer-to-record member fails the walk, after the
\* pointer was allocated
C11_Witness ==
    /\ pc = "done" /\ destType = ShapesType /\ err = UnsupportedType
    /\ obs.failedAt = <<2>>
    /\ obs.dest0[<<2>>] = Nil /\ dest[<<2>>] = NewStruct

NumCalls == 2

Procs == 1..NumCalls

\* the request type of the example server with one-letter names, and a
\* json-only member after it
EchoType ==
    << Struct(<<"N">>, QueryTag(<<"n">>),
          << Scalar(<<"F">>, QueryTag(<<"f">>), "string"),
             Scalar(<<"L">>, PathTag(<<"l">>), "string"),
             Pointer(<<"M">>, CookieTag(<<"m">>), "string") >>),
       Scalar(<<"J">>, JSONTag(<<"j">>), "string") >>

\* what the concurrent calls are made with: one call that succeeds, one that
\* fails at its first member
ConcInputs ==
    { <<EchoType,
        Request(<<>>, MalformedBody, << <<<<"n", ".", "f">>, sAbc>> >>,
                << [Name |-> <<"n", ".", "m">>, Value |-> sAbc] >>, <<>>)>>,
      <<NumbersType,
        Request(<<>>, MalformedBody, << <<<<"a">>, sAbc>> >>, <<>>, <<>>)>> }

IdleCall ==
    [ pc |-> "idle", destType |-> <<>>, r |-> NoRequest, dest |-> <<>>,
      in |-> NewDecodeIn, stack |-> <<>>, ptr |-> 0, err |-> NoError,
      keys |-> <<>> ]

\* the variables of a call that runs alone, which stay as they are here
flat == <<pc, destType, destRef, r, dest, in, stack, err, buf, obs, w>>

ConcInit ==
    /\ Idle
    /\ bytesPool = <<>>
    /\ heap = <<>>
    /\ currentPathLookuper = "default"
    /\ calls = [p \in Procs |-> IdleCall]

\* the backing array after append(fullName, bytes...) on a slice of length
\* len: the bytes land behind the slice, what lies further on stays
WriteBehind(array, len, full) == full \o SubSeq(array, Len(full) + 1, Len(array))

CallTop(c) == c.stack[Len(c.stack)]
CallFields(c) == FieldsAt(c.destType, CallTop(c).path)
CallField(c) == CallFields(c)[CallTop(c).i]
CallPath(c) == CallTop(c).path \o <<CallTop(c).i>>
CallInLoop(c) == c.pc = "walk" /\ c.stack # <<>> /\ CallTop(c).i <= Len(CallFields(c))
CallSetTop(c, f) == [c.stack EXCEPT ![Len(c.stack)] = f]

\* the bytes of a call's name path, as its slice shows them now
NamePath(c, hp) == SubSeq(hp[c.ptr].array, 1, CallTop(c).len)

\* a request arrives: Unmarshal starts with the body step
CallEnter(p) ==
    /\ calls[p].pc = "idle"
    /\ \E inp \in ConcInputs :
          LET d0  == InitialDest(inp[1], FALSE)
              res == IF isJSONRequest(inp[2])
                     THEN JSONDecode("ptr", inp[1], d0, inp[2].body)
                     ELSE [dest |-> d0, written |-> {}, err |-> NoError]
          IN  calls' = [calls EXCEPT ![p] =
                  [IdleCall EXCEPT !.destType = inp[1], !.r = inp[2],
                                   !.dest = res.dest, !.err = res.err,
                                   !.pc = IF afterBody(res.err) = "done"
                                          THEN "done" ELSE "borrow"]]
    /\ UNCHANGED <<flat, bytesPool, heap, currentPathLookuper>>

\* buf := bytesPool.Get(); decode starts on *buf
CallBorrow(p) ==
    /\ calls[p].pc = "borrow"
    /\ \E g \in PoolGet(bytesPool, heap) :
          /\ bytesPool' = g.pool
          /\ heap' = g.heap
          /\ calls' = [calls EXCEPT ![p].ptr = g.ptr, ![p].pc = "walk",
                          ![p].stack = << [path |-> <<>>, i |-> 1,
                                           len |-> Len(g.heap[g.ptr].slice)] >>]
    /\ UNCHANGED <<flat, currentPathLookuper>>

CallSkip(p) ==
    LET c == calls[p]
    IN  /\ CallInLoop(c)
        /\ ~findInTag(CallField(c)).ok
        /\ calls' = [calls EXCEPT ![p].stack = CallSetTop(c, [CallTop(c) EXCEPT !.i = @ + 1])]
        /\ UNCHANGED <<flat, bytesPool, heap, currentPathLookuper>>

CallNested(p) ==
    LET c    == calls[p]
        name == findInTag(CallField(c)).name
        full == appendWithDelimiter(NamePath(c, heap), name)
    IN  /\ CallInLoop(c)
        /\ findInTag(CallField(c)).ok
        /\ IsNestedRecord(CallField(c))
        /\ heap' = [heap EXCEPT ![c.ptr].array = WriteBehind(@, CallTop(c).len, full)]
        /\ calls' = [calls EXCEPT ![p].stack =
                        Append(CallSetTop(c, [CallTop(c) EXCEPT !.len = Len(full)]),
                               [path |-> CallPath(c), i |-> 1, len |-> Len(full)])]
        /\ UNCHANGED <<flat, bytesPool, currentPathLookuper>>

CallNestedReturn(p) ==
    LET c      == calls[p]
        parent == c.stack[Len(c.stack) - 1]
        name   == findInTag(FieldsAt(c.destType, parent.path)[parent.i]).name
    IN  /\ c.pc = "walk"
        /\ Len(c.stack) > 1
        /\ CallTop(c).i > Len(CallFields(c))
        /\ calls' = [calls EXCEPT ![p].stack =
                        [SubSeq(c.stack, 1, Len(c.stack) - 1) EXCEPT ![Len(c.stack) - 1] =
                            [parent EXCEPT !.len = @ - Len(name) - 1, !.i = @ + 1]]]
        /\ UNCHANGED <<flat, bytesPool, heap, currentPathLookuper>>

\* fullName = append(fullName, name...)
CallAppend(p) ==
    LET c    == calls[p]
        name == findInTag(CallField(c)).name
        full == appendName(NamePath(c, heap), name)
    IN  /\ CallInLoop(c)
        /\ findInTag(CallField(c)).ok
        /\ ~IsNestedRecord(CallField(c))
        /\ heap' = [heap EXCEPT ![c.ptr].array = WriteBehind(@, CallTop(c).len, full)]
        /\ calls' = [calls EXCEPT ![p].pc = "lookup",
                        ![p].stack = CallSetTop(c, [CallTop(c) EXCEPT !.len = Len(full)])]
        /\ UNCHANGED <<flat, bytesPool, currentPathLookuper>>

\* getValue under the name path as the array holds it, the name path cut
\* back, setField when the value is present
CallLookup(p) ==
    LET c     == calls[p]
        tg    == findInTag(CallField(c))
        key   == NamePath(c, heap)
        got   == getValue(c.in, c.r, currentPathLookuper, key, tg.tagType)
        set   == setField(CallField(c), c.dest[CallPath(c)], got.value)
        after == [CallTop(c) EXCEPT !.len = @ - Len(tg.name)]
        c1    == [c EXCEPT !.in = got.in,
                           !.keys = Append(@, [path |-> CallPath(c), key |-> key])]
    IN  /\ c.pc = "lookup"
        /\ calls' = [calls EXCEPT ![p] =
              IF ~got.ok
              THEN [c1 EXCEPT !.pc = "walk",
                              !.stack = CallSetTop(c, [after EXCEPT !.i = @ + 1])]
              ELSE IF set.err = NoError
              THEN [c1 EXCEPT !.pc = "walk", !.dest[CallPath(c)] = set.v,
                              !.stack = CallSetTop(c, [after EXCEPT !.i = @ + 1])]
              ELSE [c1 EXCEPT !.pc = "defer", !.dest[CallPath(c)] = set.v,
                              !.err = set.err, !.stack = <<>>]]
        /\ UNCHANGED <<flat, bytesPool, heap, currentPathLookuper>>

CallDone(p) ==
    LET c == calls[p]
    IN  /\ c.pc = "walk"
        /\ Len(c.stack) = 1
        /\ CallTop(c).i > Len(CallFields(c))
        /\ calls' = [calls EXCEPT ![p].pc = "defer", ![p].stack = <<>>]
        /\ UNCHANGED <<flat, bytesPool, heap, currentPathLookuper>>

\* the deferred function: *buf cut to length 0, bytesPool.Put(buf)
CallPut(p) ==
    LET c == calls[p]
    IN  /\ c.pc = "defer"
        /\ heap' = [heap EXCEPT ![c.ptr].slice = resetSlice(@)]
        /\ bytesPool' = PoolPut(bytesPool, c.ptr)
        /\ calls' = [calls EXCEPT ![p].pc = "done", ![p].ptr = 0]
        /\ UNCHANGED <<flat, currentPathLookuper>>

\* the handler has the result
CallReturn(p) ==
    /\ calls[p].pc = "done"
    /\ calls' = [calls EXCEPT ![p] = IdleCall]
    /\ UNCHANGED <<flat, bytesPool, heap, currentPathLookuper>>

ConcNext ==
    \E p \in Procs :
        \/ CallEnter(p)
        \/ CallBorrow(p)
        \/ CallSkip(p)
        \/ CallNested(p)
        \/ CallNestedReturn(p)
        \/ CallAppend(p)
        \/ CallLookup(p)
        \/ CallDone(p)
        \/ CallPut(p)
        \/ CallReturn(p)

ConcSpec == ConcInit /\ [][ConcNext]_vars

\* a call holds its buffer from Get to Put
Holds(p) == calls[p].pc \in {"walk", "lookup", "defer"}

\* C13: under every interleaving of concurrent calls a borrowed buffer is
\* held by one call only and is not in the pool while it is held, and every
\* key a call looks up, read back from the buffer's bytes, is the dotted path
\* of that call's own member.
C13_BufferExclusive ==
    /\ \A p \in Procs, q \in Procs :
          (p # q /\ Holds(p) /\ Holds(q)) => calls[p].ptr # calls[q].ptr
    /\ \A p \in Procs :
          Holds(p) =>
             /\ calls[p].ptr \in 1..Len(heap)
             /\ \A j \in 1..Len(bytesPool) : bytesPool[j] # calls[p].ptr
    /\ \A p \in Procs :
          /\ calls[p].pc = "lookup" =>
                NamePath(calls[p], heap)
                   = JoinDot(Segments(calls[p].destType, CallPath(calls[p])))
          /\ \A k \in 1..Len(calls[p].keys) :
                calls[p].keys[k].key
                   = JoinDot(Segments(calls[p].destType, calls[p].keys[k].path))

\* two calls are in the middle of a lookup at once, each on its own buffer;
\* the second buffer was used by an earlier call and still has its bytes
\* behind the name path
C13_Witness ==
    /\ calls[1].pc = "lookup" /\ calls[2].pc = "lookup"
    /\ calls[1].destType = EchoType /\ calls[2].destType = NumbersType
    /\ calls[1].ptr # calls[2].ptr
    /\ Len(heap) = 2
    /\ Len(heap[calls[2].ptr].array) > CallTop(calls[2]).len
    /\ Len(calls[1].keys) = 2

\* how often a pointer is in the pool
TimesPooled(ptr) == Cardinality({j \in 1..Len(bytesPool) : bytesPool[j] = ptr})

\* C14: a call that borrowed a buffer holds it for the walk and has put it
\* back, cut to length zero, when it ends, whether the walk succeeded or
\* failed on a number or on an unsupported shape; whenever no call is between
\* Get and Put, every buffer ever made is in the pool once and is empty.
C14_BufferReturned ==
    /\ pc \in {"walk", "defer"} =>
          /\ obs.borrowed /\ buf.held
          /\ TimesPooled(buf.ptr) = 0
    /\ pc \notin {"walk", "defer"} =>
          /\ ~buf.held
          /\ \A ptr \in 1..Len(heap) : TimesPooled(ptr) = 1
    /\ \A j \in 1..Len(bytesPool) : heap[bytesPool[j]].slice = Empty
    /\ (pc = "done" /\ err \in {NoError, InvalidNumber, UnsupportedType}
          /\ destRef \in {"ptr", "ptrScalar"})
          => (obs.borrowed /\ Len(heap) >= 1)

\* a walk that failed on a number has ended and its buffer is back in the pool
C14_Witness ==
    /\ pc = "done" /\ err = InvalidNumber /\ obs.borrowed
    /\ bytesPool = <<1>> /\ heap[1].slice = Empty /\ ~buf.held

\* C15: a boolean member whose resolver reports a value is set to true
\* exactly when the raw value is the four letters "true", and to false for
\* every other string; the coercion raises no error.
C15_BoolExactMatch ==
    \A k \in 1..Len(obs.lookups) :
       LET l == obs.lookups[k]
           f == FieldAt(destType, l.path)
       IN  (destRef = "ptr" /\ f.kind = "bool" /\ l.ok) =>
              /\ l.after = BoolV(l.value = <<"t", "r", "u", "e">>)
              /\ dest[l.path] = l.after
              /\ l.path \in SetPaths
              /\ obs.failedAt # l.path
              /\ (k = Len(obs.lookups)) => err = NoError

\* "True" set a member that was true to false, without an error
C15_Witness ==
    /\ pc = "done" /\ destType = BoolType /\ err = NoError
    /\ QueryHas(r, <<"b">>) /\ QueryFirst(r, <<"b">>) = <<"T", "r", "u", "e">>
    /\ obs.dest0[<<1>>] = BoolV(TRUE) /\ dest[<<1>>] = BoolV(FALSE)

\* the request carries a cookie of that name
CookiePresent(req, name) == \E j \in 1..Len(req.cookies) : req.cookies[j].Name = name

\* how often r.Cookie was called with the name in this call
ScansOf(name) == Cardinality({j \in 1..Len(obs.cookieScans) : obs.cookieScans[j] = name})

\* C16: within one call, lookups of the same cookie name that the request
\* carries all return the same value, and r.Cookie is called for that name
\* once at most: the later lookups are answered from parsedCookies.
C16_CookieScannedOnce ==
    /\ \A j \in 1..Len(obs.lookups), k \in 1..Len(obs.lookups) :
          LET a == obs.lookups[j]
              b == obs.lookups[k]
          IN  (/\ j < k /\ a.tagType = "cookie" /\ b.tagType = "cookie"
               /\ a.key = b.key /\ CookiePresent(r, a.key)) =>
                  /\ a.ok /\ b.ok
                  /\ a.value = b.value
                  /\ a.value = Cookie(r, a.key).cookie.Value
    /\ \A k \in 1..Len(obs.lookups) :
          (obs.lookups[k].tagType = "cookie" /\ CookiePresent(r, obs.lookups[k].key))
             => ScansOf(obs.lookups[k].key) = 1

\* both members that read cookie k hold the first k of the request, after
\* one call of r.Cookie for k
C16_Witness ==
    /\ pc = "done" /\ destType = CookieType /\ err = NoError
    /\ Len(r.cookies) = 2 /\ r.cookies[1].Value = sAbc /\ r.cookies[2].Value = s7
    /\ dest[<<1>>] = StrV(sAbc) /\ dest[<<2>>] = StrV(sAbc)
    /\ ScansOf(<<"k">>) = 1
    /\ ScansOf(<<"x">>) = 2

(***************************************************************************)
(* Round trip over the query-name convention                               *)
(***************************************************************************)
\* decimal digits of a natural number
RECURSIVE Digits(_)
Digits(n) ==
    IF n < 10 THEN <<DigitChars[n + 1]>>
    ELSE Digits(n \div 10) \o <<DigitChars[(n % 10) + 1]>>

\* the string a member's value is written as: a string as it is, an integer
\* in decimal, a boolean as true or false; nothing for nil
FormatValue(v) ==
    CASE v.t = "str" -> v.s
      [] v.t = "int" -> IF v.n < 0 THEN <<"-">> \o Digits(0 - v.n) ELSE Digits(v.n)
      [] v.t = "bool" -> IF v.b THEN <<"t", "r", "u", "e">> ELSE <<"f", "a", "l", "s", "e">>
      [] OTHER -> Empty

\* values a kind has: the range of the narrow integers
InRange(kind, n) ==
    CASE kind = "int8" -> n \in -128..127
      [] kind = "uint8" -> n \in 0..255
      [] kind \in UintKinds -> n >= 0
      [] OTHER -> TRUE

\* the raw value is what its member's kind is written as: any string; a
\* number without '+', without leading zeros, within the kind's range; true
\* or false
IsCanonical(kind, s) ==
    CASE kind = "string" -> TRUE
      [] kind \in IntKinds \cup UintKinds ->
            LET neg  == s # Empty /\ Head(s) = "-" /\ kind \in IntKinds
                body == IF neg THEN Tail(s) ELSE s
            IN  /\ AllDigits(body)
                /\ (Len(body) > 1 => Head(body) # "0")
                /\ ~(neg /\ body = <<"0">>)
                /\ InRange(kind, IF neg THEN 0 - DigitsValue(body, 0)
                                 ELSE DigitsValue(body, 0))
      [] kind = "bool" -> s \in { <<"t", "r", "u", "e">>, <<"f", "a", "l", "s", "e">> }
      [] OTHER -> FALSE

\* every key of the query string is the dotted path of a member the walk
\* resolved from the query
KeysMatchPaths ==
    \A j \in 1..Len(r.query) :
       \E k \in 1..Len(obs.lookups) :
          obs.lookups[k].tagType = "query" /\ obs.lookups[k].key = r.query[j][1]

\* C17 as stated: after a successful decode of a query string whose keys are
\* the destination's dotted paths, every pair of the query string is
\* reproduced by writing out the member at its key.
C17_Original_RoundTrip ==
    (pc = "done" /\ err = NoError /\ destRef = "ptr" /\ KeysMatchPaths) =>
       \A j \in 1..Len(r.query), k \in 1..Len(obs.lookups) :
          (obs.lookups[k].tagType = "query" /\ obs.lookups[k].key = r.query[j][1])
             => FormatValue(dest[obs.lookups[k].path]) = r.query[j][2]

\* C17: after a successful decode, the member at each key of the query
\* string, written out again, gives the first value the query string has for
\* that key, provided that value is in the form its kind is written in (any
\* string; a decimal number without '+' or leading zeros within the kind's
\* range; true or false).
C17_RoundTripCanonical ==
    (pc = "done" /\ err = NoError /\ destRef = "ptr") =>
       \A k \in 1..Len(obs.lookups) :
          LET l == obs.lookups[k]
              f == FieldAt(destType, l.path)
          IN  (l.tagType = "query" /\ QueryHas(r, l.key)) =>
                 /\ l.ok /\ l.value = QueryFirst(r, l.key)
                 /\ IsCanonical(f.kind, l.value)
                       => FormatValue(dest[l.path]) = l.value

\* n.s=abc and i=-7 were decoded and come back as written
C17_Witness ==
    /\ pc = "done" /\ err = NoError /\ destType = RoundTripType
    /\ r.query = << <<<<"n", ".", "s">>, sAbc>>, <<<<"i">>, <<"-", "7">>>> >>
    /\ dest[<<1, 1>>] = StrV(sAbc) /\ dest[<<2>>] = IntV(0 - 7)
    /\ FormatValue(dest[<<2>>]) = <<"-", "7">>

(***************************************************************************)
(* C18: a handler installed by RegisterHandler calls Unmarshal first; hndl *)
(* is invoked, once and with the decoded request, only after Unmarshal     *)
(* returned success; when Unmarshal fails hndl is never invoked and the    *)
(* response is 400; an error of hndl is answered with 500 and without the  *)
(* JSON body of a response value.  Nothing is written before Unmarshal     *)
(* has returned.                                                           *)
(***************************************************************************)
C18_UnmarshalBeforeHandler ==
    /\ (pc # "served") => (w = NoResponse)
    /\ (w.hndl > 0) =>
          /\ pc = "served"
          /\ err = NoError
          /\ w.hndl = 1
          /\ w.req = dest
          /\ ~buf.held
    /\ (pc = "served" /\ err # NoError) =>
          /\ w.hndl = 0
          /\ w.status = StatusBadRequest
          /\ w.body = "error"
    /\ (w.result = "error") =>
          /\ w.status = StatusInternalServerError
          /\ w.body # "json"

\* a request whose decoding failed has been answered
C18_Witness ==
    /\ pc = "served"
    /\ err \in WalkErrors
    /\ w.status = StatusBadRequest
    /\ w.hndl = 0

\* the lookups of the walk that asked for a path variable the request's
\* route carries
PathLookups ==
    { k \in 1..Len(obs.lookups) :
        obs.lookups[k].tagType = "path" /\ obs.lookups[k].key \in DOMAIN r.pathVars }

(***************************************************************************)
(* C19 as stated: when hndl is invoked by the handler RegisterHandler      *)
(* installed, every path-annotated member whose path variable the route    *)
(* carries holds that variable's value.                                    *)
(***************************************************************************)
C19_PathMemberHoldsVariable ==
    (pc = "served" /\ w.hndl > 0) =>
       \A k \in PathLookups :
          w.req[obs.lookups[k].path] = StrV(r.pathVars[obs.lookups[k].key])

\* C19, what the code does: RegisterHandler and NewMux install no lookuper,
\* and under defaultPathLookuper hndl sees every such member at its zero
\* value
C19_DefaultLookuperLeavesZero ==
    (pc = "served" /\ w.hndl > 0 /\ currentPathLookuper = "default") =>
       \A k \in PathLookups : w.req[obs.lookups[k].path] = obs.dest0[obs.lookups[k].path]

\* C19: hndl is invoked for a route with a path variable a member asks for
C19_HandlerMissesVariable ==
    /\ pc = "served"
    /\ w.hndl > 0
    /\ currentPathLookuper = "default"
    /\ PathLookups # {}

(***************************************************************************)
(* swaggergen: the query parameters the generator documents                *)
(***************************************************************************)
UpperLetters ==
    {"A", "B", "C", "D", "E", "F", "G", "H", "I", "J", "K", "L", "M",
     "N", "O", "P", "Q", "R", "S", "T", "U", "V", "W", "X", "Y", "Z"}

\* reflect.StructField.IsExported
IsExported(field) == Head(field.name) \in UpperLetters

\* reflect.StructTag.Get: the empty string when the key is missing
Get(tag, key) == IF tag[key].ok THEN tag[key].v ELSE Empty

\* Generator.extractQueryParameters on a record type or a pointer to one,
\* from member i on: the names of the parameters, in order
RECURSIVE extractQueryParameters(_, _, _)
extractQueryParameters(fields, prefix, i) ==
    IF i > Len(fields) THEN <<>>
    ELSE LET field == fields[i]
             queryTag == Get(field.tag, "query")
             paramName == IF prefix # Empty THEN prefix \o <<delimiter>> \o queryTag
                          ELSE queryTag
             rest == extractQueryParameters(fields, prefix, i + 1)
         IN  IF ~IsExported(field) THEN rest
             ELSE IF queryTag = Empty THEN rest
             ELSE IF field.kind = "struct"
                  THEN extractQueryParameters(field.fields, paramName, 1) \o rest
             ELSE <<paramName>> \o rest

\* the names the generator documents for the destination's type
DocumentedQueryNames ==
    LET params == extractQueryParameters(destType, Empty, 1)
    IN  { params[k] : k \in 1..Len(params) }

\* the query keys the walk looked up
QueryKeysLookedUp ==
    { obs.lookups[k].key : k \in { j \in 1..Len(obs.lookups) :
                                     obs.lookups[j].tagType = tagTypeQuery } }

(***************************************************************************)
(* C20 as stated: for every request type, the query parameter names the    *)
(* generator documents are the query keys a complete walk of the decoder   *)
(* looks up.                                                               *)
(***************************************************************************)
C20_GeneratorMatchesDecoder ==
    (pc = "done" /\ err = NoError /\ destRef = "ptr") =>
       DocumentedQueryNames = QueryKeysLookedUp

\* types whose members are all exported, with no pointer to a record, and
\* whose nested records are sourced from the query or not at all
RECURSIVE PlainForQuery(_)
PlainForQuery(fields) ==
    \A k \in 1..Len(fields) :
       /\ IsExported(fields[k])
       /\ (fields[k].kind = "struct") =>
             /\ ~fields[k].ptr
             /\ findInTag(fields[k]).ok => findInTag(fields[k]).tagType = tagTypeQuery
             /\ PlainForQuery(fields[k].fields)

\* C20, where generator and decoder do agree: on such types
C20_AgreeOnPlainTypes ==
    (pc = "done" /\ err = NoError /\ destRef = "ptr" /\ PlainForQuery(destType)) =>
       DocumentedQueryNames = QueryKeysLookedUp

\* C20: a complete walk of a type with a nested query member on which the
\* two agree
C20_AgreeReached ==
    /\ pc = "done" /\ err = NoError /\ destType = RoundTripType
    /\ <<"n", ".", "s">> \in DocumentedQueryNames \cap QueryKeysLookedUp

\* C20: a complete walk of DocType, where the decoder looked up p.f, r and
\* u and the generator documents r.x
C20_DisagreeReached ==
    /\ pc = "done" /\ err = NoError /\ destType = DocType
    /\ QueryKeysLookedUp = {<<"p", ".", "f">>, <<"r">>, <<"u">>, <<"a">>}
    /\ DocumentedQueryNames = {<<"r", ".", "x">>, <<"a">>}

\* the positions of the walk's query lookups
QueryLookups == { k \in 1..Len(obs.lookups) : obs.lookups[k].tagType = tagTypeQuery }

\* the positions of the pairs of the request's query string with this key
PairsWithKey(key) == { j \in 1..Len(r.query) : r.query[j][1] = key }

(***************************************************************************)
(* C21: within one call r.URL.Query() runs at most once, at the first      *)
(* query lookup and not before, hence never for a destination without a    *)
(* query-sourced member; the table it built stays in the decodeIn for      *)
(* every later lookup; a lookup is present exactly when the query string   *)
(* has the key, and then yields the value of the key's first pair.         *)
(***************************************************************************)
C21_QueryParsedOnce ==
    destRef = "ptr" =>
       /\ obs.queryParses = (IF QueryLookups = {} THEN 0 ELSE 1)
       /\ in.queryVals.isNil <=> (obs.queryParses = 0)
       /\ ~in.queryVals.isNil => in.queryVals.m = URLQuery(r)
       /\ (\A p \in LeafPaths(destType, <<>>) :
              findInTag(FieldAt(destType, p)).tagType # tagTypeQuery)
             => obs.queryParses = 0
       /\ \A k \in QueryLookups :
             LET l    == obs.lookups[k]
                 hits == PairsWithKey(l.key)
             IN  /\ l.ok <=> (hits # {})
                 /\ l.ok => l.value = r.query[CHOOSE j \in hits : \A i \in hits : j <= i][2]

\* three query lookups were made on one table, and a key the query string
\* carries twice with different values was looked up
C21_Witness ==
    /\ pc = "done" /\ err = NoError
    /\ Cardinality(QueryLookups) >= 3
    /\ obs.queryParses = 1
    /\ \E k \in QueryLookups :
          /\ Cardinality(PairsWithKey(obs.lookups[k].key)) = 2
          /\ r.query[1][2] # r.query[2][2]

\* strconv.ParseInt or ParseUint of the raw value, by the member's kind
ParseAt64(kind, s) == IF kind \in IntKinds THEN ParseInt(s) ELSE ParseUint(s)

\* m is the value of the kind's range that differs from n by a multiple of
\* 2^8 for the 8-bit kinds, and n itself for the 64-bit kinds
ReducedTo(kind, m, n) ==
    IF kind \in {"int8", "uint8"} THEN InRange(kind, m) /\ (m - n) % 256 = 0
    ELSE m = n

(***************************************************************************)
(* C22: an integer member is parsed at 64 bits whatever its width: a       *)
(* present raw value that is a valid 64-bit number of the member's         *)
(* signedness never fails the member, in or out of the member's range; the *)
(* member then holds the parsed value reduced modulo 2^width, which for a  *)
(* value outside the range is not the value the request wrote.             *)
(***************************************************************************)
C22_ParsedWideThenReduced ==
    \A k \in 1..Len(obs.lookups) :
       LET l == obs.lookups[k]
           f == FieldAt(destType, l.path)
           p == ParseAt64(f.kind, l.value)
       IN  (destRef = "ptr" /\ l.ok /\ f.kind \in IntKinds \cup UintKinds /\ p.ok) =>
              /\ obs.failedAt # l.path
              /\ l.after.t = "int"
              /\ ReducedTo(f.kind, l.after.n, p.n)
              /\ dest[l.path] = l.after
              /\ ~InRange(f.kind, p.n) => l.after.n # p.n

\* 200 went into the int8 member as -56 and 300 into the uint8 member as
\* 44, without an error
C22_Witness ==
    /\ pc = "done" /\ err = NoError /\ destType = NarrowType
    /\ r.query = << <<<<"i">>, <<"2", "0", "0">>>>, <<<<"u">>, <<"3", "0", "0">>>> >>
    /\ dest[<<1>>] = IntV(0 - 56)
    /\ dest[<<2>>] = IntV(44)

(***************************************************************************)
(* C23: setField allocates behind a nil pointer before it parses.  When a  *)
(* present raw value fails to be set, Unmarshal returns the error; a       *)
(* pointer member that was nil is then a non-nil pointer to the zero value *)
(* of its pointee, while a pointer member that was set and a non-pointer   *)
(* member hold what they held before.                                      *)
(***************************************************************************)
C23_NilPointerAllocatedOnFailure ==
    (destRef = "ptr" /\ obs.failedAt # <<>>) =>
       LET l == obs.lookups[Len(obs.lookups)]
           f == FieldAt(destType, l.path)
       IN  /\ l.path = obs.failedAt
           /\ l.ok
           /\ err \in {InvalidNumber, UnsupportedType}
           /\ (f.ptr /\ l.before = Nil) =>
                 /\ dest[l.path] = ZeroOfKind(f.kind)
                 /\ dest[l.path] # Nil
           /\ ~(f.ptr /\ l.before = Nil) => dest[l.path] = l.before

\* b=-7 failed the nil *uint member of NumbersType, which now points to 0
C23_Witness ==
    /\ pc = "done" /\ err = InvalidNumber /\ destType = NumbersType
    /\ obs.failedAt = <<2>>
    /\ obs.dest0[<<2>>] = Nil
    /\ dest[<<2>>] = IntV(0)

\* C23: a=abc failed the int member of NumbersType, which keeps its 5
C23_NonPointerKept ==
    /\ pc = "done" /\ err = InvalidNumber /\ destType = NumbersType
    /\ obs.failedAt = <<1>>
    /\ obs.dest0[<<1>>] = IntV(5)
    /\ dest[<<1>>] = IntV(5)

====
